---------------------------- MODULE Spec2Model ----------------------------
(***************************************************************************)
(* Oracle EPM AI bot: the tool-use orchestration loop, in its two drivers  *)
(*   - EPM_Orchestrator/epm_orchestrator_gui.py  (Tk front end, worker     *)
(*     threads, MCPThreadBridge)                                           *)
(*   - PBCS_MCP/orchestrator_claude_mcp_epm.py   (console loop, one task)  *)
(*                                                                         *)
(* A Python str is a sequence of tokens (<<>> is the empty string); the   *)
(* white space characters " " and "\n" are tokens of their own, so that   *)
(* join and strip are computed and not assumed.                            *)
(***************************************************************************)
EXTENDS Integers, Sequences, FiniteSets, TLC

(* ------------------------------ bounds -------------------------------- *)
\* top-level orchestrator invocations (worker threads / console questions)
MaxRuns == 2
\* calls of the completion service over the whole execution
MaxCalls == 2
\* content blocks in one assistant turn
MaxBlocks == 2
\* presses of "Connect MCP"
MaxConnects == 2
\* chat-box lines written while the application is not ready
MaxNotReady == 1

Runs == 1..MaxRuns
Bridges == 1..MaxConnects

(* ------------------------------ strings ------------------------------- *)
WhiteSpace == {" ", "\n"}

RECURSIVE LStrip(_)
LStrip(s) == IF s # <<>> /\ Head(s) \in WhiteSpace THEN LStrip(Tail(s)) ELSE s

RECURSIVE RStrip(_)
RStrip(s) ==
    IF s # <<>> /\ s[Len(s)] \in WhiteSpace THEN RStrip(SubSeq(s, 1, Len(s) - 1)) ELSE s

\* str.strip()
Strip(s) == RStrip(LStrip(s))

\* sep.join(parts)
RECURSIVE Join(_, _)
Join(sep, parts) ==
    IF parts = <<>> THEN <<>>
    ELSE IF Len(parts) = 1 THEN parts[1]
    ELSE parts[1] \o sep \o Join(sep, Tail(parts))

\* s.startswith(prefix), prefix one token
StartsWith(s, tok) == s # <<>> /\ s[1] = tok

(* --------------------------- content blocks --------------------------- *)
\* Every block, API object or dict, is a record over the same fields; a
\* field a block does not have holds NoVal.  "citations" exists on the
\* API's text objects only and is what _blocks_to_dicts drops.
NoVal == "-"

ApiText(t) ==
    [type |-> "text", text |-> t, id |-> 0, name |-> NoVal, input |-> NoVal,
     content |-> <<>>, is_error |-> FALSE, citations |-> "None"]

ApiToolUse(i, n, a) ==
    [type |-> "tool_use", text |-> <<>>, id |-> i, name |-> n, input |-> a,
     content |-> <<>>, is_error |-> FALSE, citations |-> NoVal]

DictText(t) ==
    [type |-> "text", text |-> t, id |-> 0, name |-> NoVal, input |-> NoVal,
     content |-> <<>>, is_error |-> FALSE, citations |-> NoVal]

DictToolUse(i, n, a) ==
    [type |-> "tool_use", text |-> <<>>, id |-> i, name |-> n, input |-> a,
     content |-> <<>>, is_error |-> FALSE, citations |-> NoVal]

\* a block that is neither text nor tool_use (it has no "text")
ApiThinking ==
    [type |-> "thinking", text |-> <<>>, id |-> 0, name |-> NoVal, input |-> NoVal,
     content |-> <<>>, is_error |-> FALSE, citations |-> NoVal]

\* {"type": "tool_result", "tool_use_id": i, "content": c[, "is_error": True]}
DictToolResult(i, c, err) ==
    [type |-> "tool_result", text |-> <<>>, id |-> i, name |-> NoVal, input |-> NoVal,
     content |-> c, is_error |-> err, citations |-> NoVal]

\* A turn of the history: {"role": r, "content": <str>} or {"role": r, "content": [..]}
StrTurn(r, s) == [role |-> r, kind |-> "str", str |-> s, content |-> <<>>]
ListTurn(r, bs) == [role |-> r, kind |-> "list", str |-> <<>>, content |-> bs]


(* ------------------------------ helpers -------------------------------- *)
IsText(b) == b.type = "text"
IsToolUse(b) == b.type = "tool_use"
IsToolResult(b) == b.type = "tool_result"
NonEmpty(p) == p # <<>>

TextOf(blocks) == [i \in 1..Len(blocks) |-> blocks[i].text]

\* (mutant of extract_text) every text joined, the empty ones too
extract_text_AllParts(content) ==
    Strip(Join(<<"\n">>, TextOf(SelectSeq(content, IsText))))

\* _extract_text / extract_text on a list of blocks: the text of the blocks
\* of type "text", the empty ones dropped, joined by "\n", stripped.
extract_text(content) ==
    Strip(Join(<<"\n">>, SelectSeq(TextOf(SelectSeq(content, IsText)), NonEmpty)))

\* _blocks_to_dicts: text and tool_use objects become dicts of their own
\* fields (nothing else of the object is kept); a block of any other type
\* is dumped with all its fields (b.model_dump()).
block_to_dict(b) ==
    IF b.type = "text" THEN DictText(b.text)
    ELSE IF b.type = "tool_use" THEN DictToolUse(b.id, b.name, b.input)
    ELSE b

blocks_to_dicts(blocks) == [i \in 1..Len(blocks) |-> block_to_dict(blocks[i])]

\* tool_uses = [b for b in resp.content if b.type == "tool_use"]
ToolUses(content) == SelectSeq(content, IsToolUse)

\* A tool result is [content |-> "None" | "str" | "list", str, blocks].
McpNone == [content |-> "None", str |-> <<>>, blocks |-> <<>>]
McpStr(s) == [content |-> "str", str |-> s, blocks |-> <<>>]
McpList(bs) == [content |-> "list", str |-> <<>>, blocks |-> bs]

\* json.dumps(..) of a value this model does not look into: one token.
JsonOfResult == <<"{\"result\": \"...\"}">>
JsonOfContent(bs) == IF bs = <<>> THEN <<"[]">> ELSE <<"[...]">>

\* _mcp_result_to_text / mcp_result_to_text
mcp_result_to_text(res) ==
    IF res.content = "None" THEN JsonOfResult
    ELSE IF res.content = "str" THEN res.str
    ELSE LET joined == Strip(Join(<<"\n">>,
                          SelectSeq(TextOf(SelectSeq(res.blocks, IsText)), NonEmpty)))
         IN  IF joined # <<>> THEN joined ELSE JsonOfContent(res.blocks)

\* Exceptions: [type, msg]; repr(e) and str(e) each one token (str(e) of an
\* exception without arguments is the empty string).
NoExc == [type |-> NoVal, msg |-> NoVal]
Repr(e) ==
    <<e.type \o "(" \o (IF e.msg = "" THEN "" ELSE "'" \o e.msg \o "'") \o ")">>
StrOf(e) == IF e.msg = "" THEN <<>> ELSE <<e.msg>>

NotConnectedError == [type |-> "RuntimeError", msg |-> "MCP not connected"]
FutureTimeout == [type |-> "TimeoutError", msg |-> ""]

(* ---------------------- what the environment offers -------------------- *)
Texts == {<<"a">>}
ToolNames == {"epm_list_files"}
ToolInput == "{}"
\* one assistant turn as the completion service may shape it
Templates ==
    {[type |-> "text", text |-> t, name |-> NoVal] : t \in Texts}
      \cup {[type |-> "tool_use", text |-> <<>>, name |-> n] : n \in ToolNames}
Shapes == UNION {[1..n -> Templates] : n \in 0..MaxBlocks}
ApiErrors == {[type |-> "APIConnectionError", msg |-> "Connection error."]}
ToolErrors == {[type |-> "McpError", msg |-> "boom"]}
ToolResults == {McpList(<<DictText(<<"3 files">>)>>)}
ToolCatalog == <<"epm_list_files", "epm_get_status">>
OpPrompts == {<<"Use EPM read-only tools to provide: daily maintenance time ...">>}
ChatTexts == {<<" ", "q">>}

CountToolUse(tpl, i) == Cardinality({j \in 1..i : tpl[j].type = "tool_use"})

\* The content of a response: the service gives every tool_use a fresh id.
BuildContent(tpl, base) ==
    [i \in 1..Len(tpl) |->
        IF tpl[i].type = "text" THEN ApiText(tpl[i].text)
        ELSE ApiToolUse(base + CountToolUse(tpl, i), tpl[i].name, ToolInput)]

(* ------------------- the MCP servers: JSON values ----------------------- *)
\* A JSON value as Python holds it: None, bool, int, str, dict, list.  Every
\* value is a record over the same fields; a dict is the sequence of its
\* items (key, value) in insertion order, a list the sequence of its values.
JNull == [t |-> "null", s |-> "", n |-> 0, items |-> <<>>]
JBool(b) == [t |-> "bool", s |-> "", n |-> IF b THEN 1 ELSE 0, items |-> <<>>]
JNum(i) == [t |-> "num", s |-> "", n |-> i, items |-> <<>>]
JStr(x) == [t |-> "str", s |-> x, n |-> 0, items |-> <<>>]
JList(xs) == [t |-> "list", s |-> "", n |-> 0, items |-> xs]
JDict(kvs) == [t |-> "dict", s |-> "", n |-> 0, items |-> kvs]
KV(k, v) == [k |-> k, v |-> v]

IsDict(o) == o.t = "dict"
IsList(o) == o.t = "list"

\* bool(o)
Truthy(o) ==
    CASE o.t = "null" -> FALSE
      [] o.t \in {"bool", "num"} -> o.n # 0
      [] o.t = "str" -> o.s # ""
      [] OTHER -> o.items # <<>>

\* a or b
Or(a, b) == IF Truthy(a) THEN a ELSE b

HasKey(d, k) == \E i \in 1..Len(d.items) : d.items[i].k = k
\* d.get(k): None when the key is absent
Get(d, k) ==
    IF HasKey(d, k)
    THEN d.items[CHOOSE i \in 1..Len(d.items) : d.items[i].k = k].v
    ELSE JNull
\* d[k] = v
Put(d, k, v) ==
    IF HasKey(d, k)
    THEN JDict([i \in 1..Len(d.items) |->
                   IF d.items[i].k = k THEN KV(k, v) ELSE d.items[i]])
    ELSE JDict(Append(d.items, KV(k, v)))
\* {**a, **b}
RECURSIVE Merge(_, _)
Merge(a, b) ==
    IF b.items = <<>> THEN a
    ELSE Merge(Put(a, Head(b.items).k, Head(b.items).v), JDict(Tail(b.items)))

\* k.lower(), on the keys this model uses
LowerOf ==
    [k \in {"password", "Password", "SECRET", "secret", "authorization",
            "Authorization", "access_token", "client_secret", "message", "details",
            "name", "items", "raw_text", "ok", "error", "status_code", "response",
            "url", "base_used", "attempts", "jobId", "status", "raw", "expires_in",
            "cached", "jobID", "id", "jobIdentifier", "descriptiveStatus", "state",
            "percentComplete", "progress", "startTime", "endTime", "severity",
            "type", "row", "text", "messages"} |->
        CASE k = "Password" -> "password"
          [] k = "SECRET" -> "secret"
          [] k = "Authorization" -> "authorization"
          [] k = "jobId" -> "jobid"
          [] k = "jobID" -> "jobid"
          [] k = "jobIdentifier" -> "jobidentifier"
          [] k = "descriptiveStatus" -> "descriptivestatus"
          [] k = "percentComplete" -> "percentcomplete"
          [] k = "startTime" -> "starttime"
          [] k = "endTime" -> "endtime"
          [] OTHER -> k]
Lower(k) == LowerOf[k]

REDACT_KEYS == {"password", "authorization", "access_token", "client_secret", "secret"}
Redacted == JStr("***REDACTED***")

\* (mutant of redact) the keys of the outermost dict only
redact_TopLevelOnly(obj) ==
    IF IsDict(obj)
    THEN JDict([i \in 1..Len(obj.items) |->
                   IF Lower(obj.items[i].k) \in REDACT_KEYS
                   THEN KV(obj.items[i].k, Redacted)
                   ELSE obj.items[i]])
    ELSE obj

\* redact(obj)
RECURSIVE redact(_)
redact(obj) ==
    IF IsDict(obj)
    THEN JDict([i \in 1..Len(obj.items) |->
                   IF Lower(obj.items[i].k) \in REDACT_KEYS
                   THEN KV(obj.items[i].k, Redacted)
                   ELSE KV(obj.items[i].k, redact(obj.items[i].v))])
    ELSE IF IsList(obj)
    THEN JList([i \in 1..Len(obj.items) |-> redact(obj.items[i])])
    ELSE obj

(* ------------------ the MCP servers: requests and replies --------------- *)
\* The body of an HTTP response: no content, text that is not JSON, or JSON.
EmptyBody == [kind |-> "empty", text |-> "", json |-> JNull]
TextBody(x) == [kind |-> "text", text |-> x, json |-> JNull]
JsonBody(o) == [kind |-> "json", text |-> "", json |-> o]

\* What requests gives back: a response r, or a RequestException e.
NoReply == [kind |-> "none", status_code |-> 0, reason |-> "", body |-> EmptyBody, err |-> ""]
Response(code, why, body) ==
    [kind |-> "http", status_code |-> code, reason |-> why, body |-> body, err |-> ""]
RequestException(msg) ==
    [kind |-> "transport", status_code |-> 0, reason |-> "", body |-> EmptyBody, err |-> msg]

\* try: payload = r.json() if r.content else {}
\* except Exception: payload = {"raw_text": r.text}
ParsePayload(r) ==
    IF r.body.kind = "empty" THEN JDict(<<>>)
    ELSE IF r.body.kind = "json" THEN r.body.json
    ELSE JDict(<<KV("raw_text", JStr(r.body.text))>>)

\* _http_get, epm_get and pbcs_get put "url" into every result; pbcs_request
\* does not.
WithUrl(gw, d, url) == IF gw = "pbcs_request" THEN d ELSE Put(d, "url", JStr(url))

\* {"ok": False, "error": "NETWORK_ERROR", "message": str(e)[, "url": url]}
NetworkErrorResult(gw, r, url) ==
    WithUrl(gw, JDict(<<KV("ok", JBool(FALSE)), KV("error", JStr("NETWORK_ERROR")),
                        KV("message", JStr(r.err))>>), url)

\* the result for r.status_code >= 300; reading it is legal only when
\* payload is a dict (payload.get raises AttributeError on anything else)
HttpErrorResult(gw, r, url) ==
    LET payload == ParsePayload(r) IN
    WithUrl(gw, JDict(<<KV("ok", JBool(FALSE)), KV("error", JStr("HTTP_ERROR")),
                        KV("status_code", JNum(r.status_code)),
                        KV("message", Or(Or(Get(payload, "message"), Get(payload, "details")),
                                         JStr(r.reason))),
                        KV("response", redact(payload))>>), url)

\* {"ok": True, "status_code": r.status_code, "response": redact(payload)[, "url": url]}
OkResult(gw, r, url) ==
    WithUrl(gw, JDict(<<KV("ok", JBool(TRUE)), KV("status_code", JNum(r.status_code)),
                        KV("response", redact(ParsePayload(r)))>>), url)

\* What a function call ended with: nothing yet, a returned value, or an
\* exception that left the function.
NoRet == [kind |-> "none", value |-> JNull, exc |-> NoExc]
Returned(v) == [kind |-> "value", value |-> v, exc |-> NoExc]
Raised(e) == [kind |-> "raised", value |-> JNull, exc |-> e]
\* payload.get(..) on a payload that is not a dict
NoGetError == [type |-> "AttributeError", msg |-> "object has no attribute 'get'"]

\* The gateway's code after the request: lines 87-105 of _http_get, 80-98 of
\* epm_get, 97-116 of pbcs_get, 239-256 of pbcs_request.
GatewayOutcome(gw, r, url) ==
    IF r.kind = "transport" THEN Returned(NetworkErrorResult(gw, r, url))
    ELSE IF r.status_code >= 300
    THEN IF IsDict(ParsePayload(r)) THEN Returned(HttpErrorResult(gw, r, url))
         ELSE Raised(NoGetError)
    ELSE Returned(OkResult(gw, r, url))

\* _TOKEN_CACHE: token "" is None
EmptyCache == [token |-> "", expires_at |-> 0]

(* ------------------------------- state --------------------------------- *)
VARIABLES
    driver,        \* "gui": epm_orchestrator_gui.py, "cli": orchestrator_claude_mcp_epm.py
    main,          \* the main thread: "mainloop" (gui); "input" | "running" | "crashed" | "exited" (cli)
    apiKey,        \* api_entry holds a key
    mcp,           \* self.mcp: 0 is None, else the bridge object
    session,       \* bridge -> its session is not None
    tools_schema,  \* self.tools_schema
    status,        \* the text of the status label
    cpc,           \* connect thread -> where it is in connect_mcp._do
    messages,      \* self.messages / messages: the conversation history
    chat_box,      \* what the operator is shown: log(who, text) / print
    chat_status,   \* the text of chat_status
    entryText,     \* the text in input_entry
    entryEnabled,  \* input_entry is in state "normal"
    afterQueue,    \* callbacks handed to self.after(0, ..), not yet run
    pc,            \* run -> where its thread is
    resp,          \* run -> resp.content
    idx,           \* run -> position of the for loop in tool_uses
    tool_results,  \* run -> tool_results
    answer,        \* run -> answer
    exc,           \* run -> e of _do's "except Exception as e" (NoExc: unbound)
    toolExc,       \* run -> e of run's "except Exception as e" (NoExc: unbound)
    mcpRef,        \* run -> the bridge passed to run
    invoked,       \* run -> the call_tool invocations of this iteration, in order
    inflight,      \* requests sent on a session and not yet answered
    nextId,        \* the ids the completion service has given out
    nCalls,        \* calls of the completion service so far
    nNotReady,     \* chat-box lines written for a request refused by _ensure_ready
    bridge,        \* bridge -> its _tools_cache, its thread and loop, and what was called on it
    bres           \* the last call of call_tool, list_tools or close, and how it ended

\* One MCP server process (a program of PBCS_MCP/) serving tool calls.
VARIABLES
    server,        \* the program: its file name (NoVal: no server in this behaviour)
    auth_mode,     \* cfg.auth_mode (pbcs_copilot_mcp_real.py only)
    tool,          \* the function the call under way entered
    arg,           \* its argument: interop_path / path, or redact's obj
    spc,           \* where that call is
    wire,          \* the requests this call has sent, each with its reply
    r1,            \* epm_get_dualbase's r1
    r2,            \* epm_get_dualbase's r2
    ret,           \* what the call ended with
    token_cache,   \* _TOKEN_CACHE
    now,           \* time.time()
    nStarted       \* tool calls the server has been given so far

\* The job tools of a server (planning_execute_job, planning_run_job_and_wait,
\* planning_watch_job) and the callers of get_oauth_token.
VARIABLES
    cfg,           \* cfg.client_api_key and cfg.allowlist_jobs ("": not set)
    ok_tok,        \* pbcs_request's ok, tok = get_oauth_token(cfg)
    callee,        \* the tool function the call under way is in
    exec_res,      \* planning_run_job_and_wait's exec_res
    start,         \* start = time.time() of the polling loop
    polls,         \* polls
    last_status,   \* last_status
    details,       \* details
    thr,           \* caller -> where it is in get_oauth_token, and its locals
    nIssued,       \* tokens the issuer has given out
    dispatch       \* how mcp.run() runs the tool functions, which are all "def"

jobVars ==
    <<cfg, ok_tok, callee, exec_res, start, polls, last_status, details, thr, nIssued,
      dispatch>>

srvVars ==
    <<server, auth_mode, tool, arg, spc, wire, r1, r2, ret, token_cache, now, nStarted,
      jobVars>>

vars ==
    <<driver, main, apiKey, mcp, session, tools_schema, status, cpc, messages,
      chat_box, chat_status, entryText, entryEnabled, afterQueue, pc, resp, idx,
      tool_results, answer, exc, toolExc, mcpRef, invoked, inflight, nextId,
      nCalls, nNotReady, bridge, bres, srvVars>>

guiVars == <<apiKey, mcp, session, tools_schema, status, cpc, bridge, bres>>
uiVars == <<chat_box, chat_status, entryText, entryEnabled, afterQueue>>
runVars == <<pc, resp, idx, tool_results, answer, exc, toolExc, mcpRef, invoked>>
envVars == <<inflight, nextId, nCalls>>

InitRuns ==
    /\ pc = [r \in Runs |-> "idle"]
    /\ resp = [r \in Runs |-> <<>>]
    /\ idx = [r \in Runs |-> 0]
    /\ tool_results = [r \in Runs |-> <<>>]
    /\ answer = [r \in Runs |-> <<>>]
    /\ exc = [r \in Runs |-> NoExc]
    /\ toolExc = [r \in Runs |-> NoExc]
    /\ mcpRef = [r \in Runs |-> 0]
    /\ invoked = [r \in Runs |-> <<>>]
    /\ inflight = {}
    /\ nextId = 0
    /\ nCalls = 0
    /\ nNotReady = 0
    /\ messages = <<>>
    /\ chat_box = <<>>
    /\ afterQueue = <<>>
    /\ entryText = <<>>
    /\ entryEnabled = TRUE
    /\ chat_status = "Ready"
    /\ cpc = [c \in Bridges |-> "idle"]

\* MCPThreadBridge.__init__ (lines 132-139): _tools_cache None, the thread
\* not started; started: start() has returned and close() was not called
\* since; closed: close() has returned and start() was not called since
NewBridge == [cache |-> NoVal, loop |-> "new", started |-> FALSE, closed |-> FALSE]
\* no method of a bridge called yet
NoCall ==
    [op |-> NoVal, b |-> 0, exc |-> NoExc, sent |-> FALSE, session |-> FALSE,
     started |-> FALSE, closed |-> FALSE]
NoBridgeUse ==
    /\ bridge = [b \in Bridges |-> NewBridge]
    /\ bres = NoCall
\* bridge 1 started, its tools listed
OneBridge ==
    /\ bridge = [b \in Bridges |->
                    IF b = 1
                    THEN [cache |-> ToolCatalog, loop |-> "running", started |-> TRUE,
                          closed |-> FALSE]
                    ELSE NewBridge]
    /\ bres = NoCall

\* EPMOrchestratorApp.__init__: nothing connected, no key entered.
InitGui ==
    /\ driver = "gui"
    /\ main = "mainloop"
    /\ apiKey = FALSE
    /\ mcp = 0
    /\ session = [b \in Bridges |-> FALSE]
    /\ NoBridgeUse
    /\ tools_schema = <<>>
    /\ status = "MCP: Not connected"

\* main() at its first input(): configuration loaded, session initialized,
\* tools discovered.
InitCli ==
    /\ driver = "cli"
    /\ main = "input"
    /\ apiKey = TRUE
    /\ mcp = 1
    /\ session = [b \in Bridges |-> b = 1]
    /\ OneBridge
    /\ tools_schema = ToolCatalog
    /\ status = NoVal

\* the orchestrator's behaviours do not look into the server process
\* threads of a server that may be inside get_oauth_token at once
Callers == 1..2
\* a caller outside get_oauth_token
IdleCaller == [pc |-> "idle", token |-> "", expires_in |-> 0, result |-> NoRet]
NoTok == [ok |-> FALSE, tok |-> JNull]
NoCfg == [client_api_key |-> "", allowlist_jobs |-> <<>>]

\* no job tool entered, nobody in get_oauth_token
NoJob ==
    /\ ok_tok = NoTok
    /\ callee = NoVal
    /\ exec_res = JNull
    /\ start = 0
    /\ polls = <<>>
    /\ last_status = JNull
    /\ details = JNull
    /\ thr = [c \in Callers |-> IdleCaller]
    /\ nIssued = 0
    /\ dispatch = NoVal

NoServer ==
    /\ cfg = NoCfg
    /\ NoJob
    /\ server = NoVal
    /\ auth_mode = NoVal
    /\ tool = NoVal
    /\ arg = JNull
    /\ spc = "idle"
    /\ wire = <<>>
    /\ r1 = NoRet
    /\ r2 = NoRet
    /\ ret = NoRet
    /\ token_cache = EmptyCache
    /\ now = 0
    /\ nStarted = 0

Init == InitRuns /\ (InitGui \/ InitCli) /\ NoServer

(* ------------------- ClaudeToolRunner.run / main's loop ----------------- *)
Gui == driver = "gui"
Cli == driver = "cli"

\* (mutant of AppendTurn) messages.insert(0, turn)
AppendTurn_Front(history, turn) == <<turn>> \o history

\* messages.append(turn)
AppendTurn(history, turn) == Append(history, turn)

\* (mutant of AddResult) tool_results.insert(0, block)
AddResult_Front(results, block) == <<block>> \o results

\* tool_results.append(block)
AddResult(results, block) == Append(results, block)

\* the tool_result of a call that returned
ToolSuccessResult(tu, res) == DictToolResult(tu.id, mcp_result_to_text(res), FALSE)

\* (mutant of ToolErrorResult) the error text handed back as an ordinary result
ToolErrorResult_Plain(tu, e, drv) == DictToolResult(tu.id, Repr(e), FALSE)

\* the tool_result of a call that raised: f"Tool error: {repr(e)}" in the
\* GUI's runner, f"Tool error: {e}" in the console loop
ToolErrorResult(tu, e, drv) ==
    DictToolResult(tu.id,
                   <<"Tool error:", " ">> \o (IF drv = "gui" THEN Repr(e) ELSE StrOf(e)),
                   TRUE)

\* (mutant of IsFinalTurn) a turn that opens with text ends the loop
IsFinalTurn_FirstText(content) == ToolUses(content) = <<>> \/ IsText(content[1])

\* "if not tool_uses": the loop ends at a turn without tool_use blocks
IsFinalTurn(content) == ToolUses(content) = <<>>

\* _extract_text(assistant_blocks) or "(no text returned)"
NoTextReturned == <<"(no text returned)">>
GuiAnswer(assistant_blocks) ==
    IF extract_text(assistant_blocks) # <<>> THEN extract_text(assistant_blocks)
    ELSE NoTextReturned

\* print(f"\nClaude> {extract_text(assistant_blocks)}\n")
CliPrinted(assistant_blocks) == <<"Claude>", " ">> \o extract_text(assistant_blocks)

Log(who, text) == Append(chat_box, [who |-> who, text |-> text])

CurrentToolUse(r) == ToolUses(resp[r])[idx[r]]

\* client.messages.create(...): returns a turn or raises.  The first call of
\* a run is made right after the thread has read self.mcp for run's argument.
CallCompletion(r) ==
    /\ pc[r] = "call"
    /\ nCalls < MaxCalls
    /\ nCalls' = nCalls + 1
    /\ mcpRef' = [mcpRef EXCEPT ![r] = IF mcpRef[r] = 0 THEN mcp ELSE mcpRef[r]]
    /\ \/ \E tpl \in Shapes :
            /\ resp' = [resp EXCEPT ![r] = BuildContent(tpl, nextId)]
            /\ nextId' = nextId + CountToolUse(tpl, Len(tpl))
            /\ pc' = [pc EXCEPT ![r] = "append"]
            /\ UNCHANGED <<exc, main>>
       \/ \E e \in ApiErrors :
            /\ exc' = [exc EXCEPT ![r] = e]
            /\ pc' = [pc EXCEPT ![r] = IF Gui THEN "raised" ELSE "crashed"]
            /\ main' = IF Gui THEN main ELSE "crashed"
            /\ UNCHANGED <<resp, nextId>>
    /\ UNCHANGED <<srvVars, driver, guiVars, uiVars, messages, idx, tool_results, answer,
                   toolExc, invoked, inflight, nNotReady>>

\* lines 235-240 (GUI), 185-191 (console): append the assistant turn, then
\* return the answer or start on the tool_use blocks.
AppendAssistant(r) ==
    /\ pc[r] = "append"
    /\ messages' = AppendTurn(messages, ListTurn("assistant", blocks_to_dicts(resp[r])))
    /\ IF IsFinalTurn(resp[r])
       THEN /\ IF Gui
               THEN /\ answer' = [answer EXCEPT ![r] = GuiAnswer(blocks_to_dicts(resp[r]))]
                    /\ pc' = [pc EXCEPT ![r] = "returned"]
                    /\ UNCHANGED <<chat_box, main>>
               ELSE /\ chat_box' = Log("CLAUDE", CliPrinted(blocks_to_dicts(resp[r])))
                    /\ pc' = [pc EXCEPT ![r] = "done"]
                    /\ main' = "input"
                    /\ UNCHANGED answer
            /\ UNCHANGED <<idx, tool_results, invoked>>
       ELSE /\ idx' = [idx EXCEPT ![r] = 1]
            /\ tool_results' = [tool_results EXCEPT ![r] = <<>>]
            /\ invoked' = [invoked EXCEPT ![r] = <<>>]
            /\ pc' = [pc EXCEPT ![r] = "tool"]
            /\ UNCHANGED <<answer, chat_box, main>>
    /\ UNCHANGED <<srvVars, driver, guiVars, chat_status, entryText, entryEnabled, afterQueue,
                   resp, exc, toolExc, mcpRef, envVars, nNotReady>>

\* the for loop's step after one tool_use has its tool_result
Advance(r, block) ==
    /\ tool_results' = [tool_results EXCEPT ![r] = AddResult(tool_results[r], block)]
    /\ IF idx[r] = Len(ToolUses(resp[r]))
       THEN /\ pc' = [pc EXCEPT ![r] = "results"]
            /\ UNCHANGED idx
       ELSE /\ pc' = [pc EXCEPT ![r] = "tool"]
            /\ idx' = [idx EXCEPT ![r] = idx[r] + 1]

\* mcp.call_tool(tu.name, tu.input) up to fut.result(..) / the console's
\* await session.call_tool(..) up to its suspension: the request is sent,
\* or the bridge raises "MCP not connected" without sending.  invoked
\* records the invocation (with the id of the tool_use it serves).
CallTool(r) ==
    /\ pc[r] = "tool"
    /\ invoked' = [invoked EXCEPT ![r] =
                      Append(invoked[r], [name |-> CurrentToolUse(r).name,
                                          input |-> CurrentToolUse(r).input,
                                          id |-> CurrentToolUse(r).id])]
    /\ IF session[mcpRef[r]]
       THEN /\ inflight' = inflight \cup
                   {[bridge |-> mcpRef[r], run |-> r, id |-> CurrentToolUse(r).id]}
            /\ pc' = [pc EXCEPT ![r] = "wait"]
            /\ UNCHANGED toolExc
       ELSE /\ toolExc' = [toolExc EXCEPT ![r] = NotConnectedError]
            /\ pc' = [pc EXCEPT ![r] = "toolexc"]
            /\ UNCHANGED inflight
    /\ UNCHANGED <<srvVars, driver, main, guiVars, uiVars, messages, resp, idx, tool_results,
                   answer, exc, mcpRef, nextId, nCalls, nNotReady>>

Awaited(r) == [bridge |-> mcpRef[r], run |-> r, id |-> CurrentToolUse(r).id]

\* the call the run waits for is answered with a result: lines 246-250
ToolReturns(r) ==
    /\ pc[r] = "wait"
    /\ Awaited(r) \in inflight
    /\ inflight' = inflight \ {Awaited(r)}
    /\ \E res \in ToolResults : Advance(r, ToolSuccessResult(CurrentToolUse(r), res))
    /\ UNCHANGED <<srvVars, driver, main, guiVars, uiVars, messages, resp, answer, exc, toolExc,
                   mcpRef, invoked, nextId, nCalls, nNotReady>>

\* the call the run waits for is answered with an error: call_tool raises
ToolRaises(r) ==
    /\ pc[r] = "wait"
    /\ Awaited(r) \in inflight
    /\ inflight' = inflight \ {Awaited(r)}
    /\ \E e \in ToolErrors : toolExc' = [toolExc EXCEPT ![r] = e]
    /\ pc' = [pc EXCEPT ![r] = "toolexc"]
    /\ UNCHANGED <<srvVars, driver, main, guiVars, uiVars, messages, resp, idx, tool_results,
                   answer, exc, mcpRef, invoked, nextId, nCalls, nNotReady>>

\* fut.result(timeout=timeout_s) raises TimeoutError: the coroutine stays
\* scheduled on the bridge's loop, its request unanswered (GUI only; the
\* console loop awaits without a timeout).
FutureTimesOut(r) ==
    /\ Gui
    /\ pc[r] = "wait"
    /\ Awaited(r) \in inflight
    /\ toolExc' = [toolExc EXCEPT ![r] = FutureTimeout]
    /\ pc' = [pc EXCEPT ![r] = "toolexc"]
    /\ UNCHANGED <<srvVars, driver, main, guiVars, uiVars, messages, resp, idx, tool_results,
                   answer, exc, mcpRef, invoked, envVars, nNotReady>>

\* run's "except Exception as e": lines 251-257 (GUI), 203-209 (console)
HandleToolError(r) ==
    /\ pc[r] = "toolexc"
    /\ Advance(r, ToolErrorResult(CurrentToolUse(r), toolExc[r], driver))
    /\ toolExc' = [toolExc EXCEPT ![r] = NoExc]
    /\ UNCHANGED <<srvVars, driver, main, guiVars, uiVars, messages, resp, answer, exc, mcpRef,
                   invoked, envVars, nNotReady>>

\* a request whose caller gave up is answered; nobody reads the answer
AbandonedCallEnds(c) ==
    /\ c \in inflight
    /\ ~(pc[c.run] = "wait" /\ Awaited(c.run) = c)
    /\ inflight' = inflight \ {c}
    /\ UNCHANGED <<srvVars, driver, main, guiVars, uiVars, messages, runVars, nextId, nCalls,
                   nNotReady>>

\* messages.append({"role": "user", "content": tool_results})
AppendResults(r) ==
    /\ pc[r] = "results"
    /\ messages' = AppendTurn(messages, ListTurn("user", tool_results[r]))
    /\ pc' = [pc EXCEPT ![r] = "call"]
    /\ UNCHANGED <<srvVars, driver, main, guiVars, uiVars, resp, idx, tool_results, answer, exc, toolExc,
                   mcpRef, invoked, envVars, nNotReady>>

(* ----------------------- EPMOrchestratorApp (GUI) ------------------------ *)
HasIdleRun == \E r \in Runs : pc[r] = "idle"
\* the thread object the next threading.Thread(target=_do) creates
NextRun == CHOOSE r \in Runs : pc[r] = "idle" /\ \A q \in 1..(r - 1) : pc[q] # "idle"

\* _ensure_ready
ReadyError ==
    IF ~apiKey THEN "Missing Anthropic API key."
    ELSE IF ~(mcp # 0 /\ session[mcp]) THEN "MCP not connected. Click 'Connect MCP' first."
    ELSE IF tools_schema = <<>> THEN "No MCP tools found."
    ELSE NoVal

\* set_busy(busy, msg): the status text and the state of input_entry, and
\* of nothing else
SetBusy(busy, msg) ==
    /\ chat_status' = msg
    /\ entryEnabled' = ~busy

\* the part run_operation and send_chat share once the request is accepted:
\* append the user turn, log it, set_busy(True, ..), start the thread
StartRun(text, msg) ==
    /\ HasIdleRun
    /\ messages' = AppendTurn(messages, StrTurn("user", text))
    /\ chat_box' = Log("YOU", text)
    /\ SetBusy(TRUE, msg)
    /\ pc' = [pc EXCEPT ![NextRun] = "call"]

Refuse ==
    /\ nNotReady < MaxNotReady
    /\ nNotReady' = nNotReady + 1
    /\ chat_box' = Log("SYSTEM", <<ReadyError>>)
    /\ UNCHANGED <<messages, chat_status, entryEnabled, pc>>

\* an operation button is pressed
run_operation(prompt) ==
    /\ Gui
    /\ IF ReadyError # NoVal
       THEN Refuse
       ELSE StartRun(prompt, "Running...") /\ UNCHANGED nNotReady
    /\ UNCHANGED <<srvVars, driver, main, guiVars, entryText, afterQueue, resp, idx, tool_results,
                   answer, exc, toolExc, mcpRef, invoked, envVars>>

\* the Send button is pressed (or Return in the entry)
send_chat ==
    /\ Gui
    /\ IF ReadyError # NoVal
       THEN Refuse /\ UNCHANGED entryText
       ELSE IF Strip(entryText) = <<>>
       THEN UNCHANGED <<messages, chat_box, chat_status, entryEnabled, pc, nNotReady,
                        entryText>>
       ELSE /\ entryText' = <<>>
            /\ StartRun(Strip(entryText), "Thinking...")
            /\ UNCHANGED nNotReady
    /\ UNCHANGED <<srvVars, driver, main, guiVars, afterQueue, resp, idx, tool_results,
                   answer, exc, toolExc, mcpRef, invoked, envVars>>

\* the operator types into input_entry, which accepts keys only when enabled
TypeChat(text) ==
    /\ Gui
    /\ entryEnabled
    /\ entryText # text
    /\ entryText' = text
    /\ UNCHANGED <<srvVars, driver, main, guiVars, messages, chat_box, chat_status, entryEnabled,
                   afterQueue, runVars, envVars, nNotReady>>

\* the operator types the API key
TypeApiKey ==
    /\ Gui
    /\ ~apiKey
    /\ apiKey' = TRUE
    /\ UNCHANGED <<srvVars, bridge, bres, driver, main, mcp, session, tools_schema, status,
                   cpc, messages,
                   uiVars, runVars, envVars, nNotReady>>

After(cbs) == afterQueue \o cbs
Callback(k, t) == [kind |-> k, run |-> t]

\* _do after run returned: self.after(0, lambda: self.log("CLAUDE", answer))
ScheduleAnswer(r) ==
    /\ pc[r] = "returned"
    /\ afterQueue' = After(<<Callback("log_answer", r)>>)
    /\ pc' = [pc EXCEPT ![r] = "finally"]
    /\ UNCHANGED <<srvVars, driver, main, guiVars, messages, chat_box, chat_status, entryText,
                   entryEnabled, resp, idx, tool_results, answer, exc, toolExc, mcpRef, invoked,
                   envVars, nNotReady>>

\* _do's except clause: self.after(0, lambda: self.log("SYSTEM", f"Error:\n{repr(e)}"))
ScheduleError(r) ==
    /\ pc[r] = "raised"
    /\ afterQueue' = After(<<Callback("log_error", r)>>)
    /\ pc' = [pc EXCEPT ![r] = "inexcept"]
    /\ UNCHANGED <<srvVars, driver, main, guiVars, messages, chat_box, chat_status, entryText,
                   entryEnabled, resp, idx, tool_results, answer, exc, toolExc, mcpRef, invoked,
                   envVars, nNotReady>>

\* the except clause ends: Python unbinds e
LeaveExcept(r) ==
    /\ pc[r] = "inexcept"
    /\ exc' = [exc EXCEPT ![r] = NoExc]
    /\ pc' = [pc EXCEPT ![r] = "finally"]
    /\ UNCHANGED <<srvVars, driver, main, guiVars, messages, uiVars, resp, idx, tool_results,
                   answer, toolExc, mcpRef, invoked, envVars, nNotReady>>

\* finally: self.after(0, lambda: self.set_busy(False, "Ready"))
Finally(r) ==
    /\ pc[r] = "finally"
    /\ afterQueue' = After(<<Callback("set_busy", r)>>)
    /\ pc' = [pc EXCEPT ![r] = "done"]
    /\ UNCHANGED <<srvVars, driver, main, guiVars, messages, chat_box, chat_status, entryText,
                   entryEnabled, resp, idx, tool_results, answer, exc, toolExc, mcpRef, invoked,
                   envVars, nNotReady>>

\* the text the error callback logs; the lambda reads e when it runs, and
\* raises NameError (nothing is logged) once the except clause has ended
ErrorLine(e) == <<"Error:", "\n">> \o Repr(e)

\* the main loop runs the oldest callback
TkCallback ==
    /\ Gui
    /\ afterQueue # <<>>
    /\ afterQueue' = Tail(afterQueue)
    /\ LET cb == Head(afterQueue) IN
         CASE cb.kind = "log_answer" ->
                /\ chat_box' = Log("CLAUDE", answer[cb.run])
                /\ UNCHANGED <<chat_status, entryEnabled, status>>
           [] cb.kind = "log_error" ->
                /\ chat_box' = IF exc[cb.run] # NoExc
                               THEN Log("SYSTEM", ErrorLine(exc[cb.run]))
                               ELSE chat_box
                /\ UNCHANGED <<chat_status, entryEnabled, status>>
           [] cb.kind = "set_busy" ->
                /\ SetBusy(FALSE, "Ready")
                /\ UNCHANGED <<chat_box, status>>
           [] cb.kind = "status_connected" ->
                /\ status' = "MCP: Connected"
                /\ UNCHANGED <<chat_box, chat_status, entryEnabled>>
           [] cb.kind = "log_connected" ->
                /\ chat_box' = Log("SYSTEM", <<"MCP connected.">>)
                /\ UNCHANGED <<chat_status, entryEnabled, status>>
           [] cb.kind = "status_failed" ->
                /\ status' = "MCP: Connect failed (see chat)"
                /\ UNCHANGED <<chat_box, chat_status, entryEnabled>>
           [] cb.kind = "log_connect_failed" ->
                /\ chat_box' = IF cpc[cb.run] = "inexcept"
                               THEN Log("SYSTEM", <<"MCP connect failed:">>)
                               ELSE chat_box
                /\ UNCHANGED <<chat_status, entryEnabled, status>>
    /\ UNCHANGED <<srvVars, bridge, bres, driver, main, apiKey, mcp, session, tools_schema,
                   cpc, messages,
                   entryText, runVars, envVars, nNotReady>>

(* ---------------------- connect_mcp and its thread ---------------------- *)
HasIdleConnect == \E c \in Bridges : cpc[c] = "idle"
NextConnect == CHOOSE c \in Bridges : cpc[c] = "idle" /\ \A q \in 1..(c - 1) : cpc[q] # "idle"

\* "Connect MCP" is pressed (the args entry holds its default, never empty)
connect_mcp ==
    /\ Gui
    /\ HasIdleConnect
    /\ status' = "MCP: Connecting..."
    /\ cpc' = [cpc EXCEPT ![NextConnect] = "new"]
    /\ UNCHANGED <<srvVars, bridge, bres, driver, main, apiKey, mcp, session, tools_schema,
                   messages, uiVars,
                   runVars, envVars, nNotReady>>

\* self.mcp = MCPThreadBridge(..): a bridge of its own, session None
ConnectNew(c) ==
    /\ cpc[c] = "new"
    /\ mcp' = c
    /\ cpc' = [cpc EXCEPT ![c] = "start"]
    /\ UNCHANGED <<srvVars, bridge, bres, driver, main, apiKey, session, tools_schema,
                   status, messages, uiVars,
                   runVars, envVars, nNotReady>>

\* self.mcp.start() (lines 163-167): the thread is started unless it runs,
\* then _connect succeeds, or fails before the session is assigned
\* (stdio_client), or after it (initialize); a thread that has ended cannot
\* be started again
ConnectStart(c) ==
    /\ cpc[c] = "start"
    /\ IF bridge[mcp].loop = "stopped"
       THEN /\ cpc' = [cpc EXCEPT ![c] = "failed"]
            /\ UNCHANGED <<session, bridge>>
       ELSE \/ /\ session' = [session EXCEPT ![mcp] = TRUE]
               /\ bridge' = [bridge EXCEPT ![mcp].loop = "running", ![mcp].started = TRUE,
                                           ![mcp].closed = FALSE]
               /\ cpc' = [cpc EXCEPT ![c] = "list"]
            \/ /\ UNCHANGED session
               /\ bridge' = [bridge EXCEPT ![mcp].loop = "running", ![mcp].closed = FALSE]
               /\ cpc' = [cpc EXCEPT ![c] = "failed"]
            \/ /\ session' = [session EXCEPT ![mcp] = TRUE]
               /\ bridge' = [bridge EXCEPT ![mcp].loop = "running", ![mcp].closed = FALSE]
               /\ cpc' = [cpc EXCEPT ![c] = "failed"]
    /\ UNCHANGED <<srvVars, bres, driver, main, apiKey, mcp, tools_schema, status, messages,
                   uiVars, runVars, envVars, nNotReady>>

\* how a call of a method of bridge b ended: the exception it raised
\* (NoExc: it returned), whether a request went out on the channel, and
\* what the bridge was when the method was entered
BridgeCall(op, b, e, sent) ==
    [op |-> op, b |-> b, exc |-> e, sent |-> sent, session |-> session[b],
     started |-> bridge[b].started, closed |-> bridge[b].closed]

\* self.tools_schema = self.mcp.list_tools() (lines 172-194): without a
\* session it raises; on a loop that has stopped the coroutine never runs
\* and fut.result times out; else the request is sent and answered
ConnectList(c) ==
    /\ cpc[c] = "list"
    /\ IF ~session[mcp]
       THEN /\ cpc' = [cpc EXCEPT ![c] = "failed"]
            /\ bres' = BridgeCall("list_tools", mcp, NotConnectedError, FALSE)
            /\ UNCHANGED <<tools_schema, bridge>>
       ELSE IF bridge[mcp].loop # "running"
       THEN /\ cpc' = [cpc EXCEPT ![c] = "failed"]
            /\ bres' = BridgeCall("list_tools", mcp, FutureTimeout, FALSE)
            /\ UNCHANGED <<tools_schema, bridge>>
       ELSE \/ \E cat \in {ToolCatalog, <<>>} :
                 /\ tools_schema' = cat
                 /\ bridge' = [bridge EXCEPT ![mcp].cache = cat]
                 /\ bres' = BridgeCall("list_tools", mcp, NoExc, TRUE)
                 /\ cpc' = [cpc EXCEPT ![c] = "ok"]
            \/ /\ cpc' = [cpc EXCEPT ![c] = "failed"]
               /\ \E e \in ToolErrors \cup {FutureTimeout} :
                      bres' = BridgeCall("list_tools", mcp, e, TRUE)
               /\ UNCHANGED <<tools_schema, bridge>>
    /\ UNCHANGED <<srvVars, driver, main, apiKey, mcp, session, status, messages, uiVars,
                   runVars, envVars, nNotReady>>

\* the two self.after(0, ..) of the try body
ConnectOk(c) ==
    /\ cpc[c] = "ok"
    /\ afterQueue' = After(<<Callback("status_connected", c), Callback("log_connected", c)>>)
    /\ cpc' = [cpc EXCEPT ![c] = "done"]
    /\ UNCHANGED <<srvVars, bridge, bres, driver, main, apiKey, mcp, session, tools_schema,
                   status, messages,
                   chat_box, chat_status, entryText, entryEnabled, runVars, envVars,
                   nNotReady>>

\* the two self.after(0, ..) of the except clause
ConnectFailed(c) ==
    /\ cpc[c] = "failed"
    /\ afterQueue' = After(<<Callback("status_failed", c), Callback("log_connect_failed", c)>>)
    /\ cpc' = [cpc EXCEPT ![c] = "inexcept"]
    /\ UNCHANGED <<srvVars, bridge, bres, driver, main, apiKey, mcp, session, tools_schema,
                   status, messages,
                   chat_box, chat_status, entryText, entryEnabled, runVars, envVars,
                   nNotReady>>

\* the except clause of the connect thread ends
ConnectLeave(c) ==
    /\ cpc[c] = "inexcept"
    /\ cpc' = [cpc EXCEPT ![c] = "done"]
    /\ UNCHANGED <<srvVars, bridge, bres, driver, main, apiKey, mcp, session, tools_schema,
                   status, messages,
                   uiVars, runVars, envVars, nNotReady>>

(* ------------------- the bridge's methods, called directly -------------- *)
\* MCPThreadBridge(..) has run for bridge b
Built(b) == cpc[b] \notin {"idle", "new"}

\* MCPThreadBridge.call_tool (lines 196-201): without a session it raises
\* and sends nothing; on a loop that has stopped the coroutine never runs
\* and fut.result times out; else the request is sent, and the call
\* returns, raises what the session raised, or times out
call_tool(b) ==
    /\ Gui
    /\ Built(b)
    /\ IF ~session[b]
       THEN bres' = BridgeCall("call_tool", b, NotConnectedError, FALSE)
       ELSE IF bridge[b].loop # "running"
       THEN bres' = BridgeCall("call_tool", b, FutureTimeout, FALSE)
       ELSE \E e \in {NoExc, FutureTimeout} \cup ToolErrors :
                bres' = BridgeCall("call_tool", b, e, TRUE)
    /\ UNCHANGED <<srvVars, bridge, driver, main, apiKey, mcp, session, tools_schema, status,
                   cpc, messages, uiVars, runVars, envVars, nNotReady>>

\* MCPThreadBridge.close (lines 203-214): nothing while the thread is not
\* alive; else _close (lines 156-161) runs on the loop: aclose() returns
\* and the three fields are reset, or aclose() raises (or the 10 seconds
\* pass) and they are not; either exception is swallowed and the loop is
\* stopped
close(b) ==
    /\ Gui
    /\ Built(b)
    /\ IF bridge[b].loop # "running"
       THEN /\ bridge' = [bridge EXCEPT ![b].closed = TRUE, ![b].started = FALSE]
            /\ UNCHANGED session
       ELSE \/ /\ session' = [session EXCEPT ![b] = FALSE]
               /\ bridge' = [bridge EXCEPT ![b] = [cache |-> NoVal, loop |-> "stopped",
                                                   started |-> FALSE, closed |-> TRUE]]
            \/ /\ UNCHANGED session
               /\ bridge' = [bridge EXCEPT ![b].loop = "stopped", ![b].started = FALSE,
                                           ![b].closed = TRUE]
    /\ UNCHANGED <<srvVars, bres, driver, main, apiKey, mcp, tools_schema, status, cpc,
                   messages, uiVars, runVars, envVars, nNotReady>>

(* --------------------------- the console loop --------------------------- *)
CliInputs == {<<"q">>, <<" ">>, <<"exit">>}

\* user_q = input("You> ").strip(), up to the first completion call
CliInput(line) ==
    /\ Cli
    /\ main = "input"
    /\ HasIdleRun
    /\ IF Strip(line) = <<>>
       THEN UNCHANGED <<main, messages, pc>>
       ELSE IF Strip(line) \in {<<"exit">>, <<"quit">>}
       THEN main' = "exited" /\ UNCHANGED <<messages, pc>>
       ELSE /\ messages' = AppendTurn(messages, StrTurn("user", Strip(line)))
            /\ pc' = [pc EXCEPT ![NextRun] = "call"]
            /\ main' = "running"
    /\ UNCHANGED <<srvVars, driver, guiVars, uiVars, resp, idx, tool_results, answer, exc, toolExc, mcpRef,
                   invoked, envVars, nNotReady>>

(* ---------------------------- specification ----------------------------- *)
RunStep(r) ==
    \/ CallCompletion(r)
    \/ AppendAssistant(r)
    \/ CallTool(r)
    \/ ToolReturns(r)
    \/ ToolRaises(r)
    \/ HandleToolError(r)
    \/ FutureTimesOut(r)
    \/ AppendResults(r)
    \/ ScheduleAnswer(r)
    \/ ScheduleError(r)
    \/ LeaveExcept(r)
    \/ Finally(r)

ConnectStep(c) ==
    \/ ConnectNew(c)
    \/ ConnectStart(c)
    \/ ConnectList(c)
    \/ ConnectOk(c)
    \/ ConnectFailed(c)
    \/ ConnectLeave(c)

Operator ==
    \/ TypeApiKey
    \/ connect_mcp
    \/ \E p \in OpPrompts : run_operation(p)
    \/ \E t \in ChatTexts : TypeChat(t)
    \/ send_chat
    \/ \E line \in CliInputs : CliInput(line)

Next ==
    \/ Operator
    \/ TkCallback
    \/ \E r \in Runs : RunStep(r)
    \/ \E c \in Bridges : ConnectStep(c)
    \/ \E c \in inflight : AbandonedCallEnds(c)

Spec == Init /\ [][Next]_vars

\* the application window with nothing connected, "Connect MCP" and the
\* bridge's methods
InitBridge == InitRuns /\ InitGui /\ NoServer

NextBridge ==
    \/ connect_mcp
    \/ \E c \in Bridges : ConnectStep(c)
    \/ TkCallback
    \/ \E b \in Bridges : call_tool(b)
    \/ \E b \in Bridges : close(b)

BridgeSpec == InitBridge /\ [][NextBridge]_vars

(* --------------- the orchestrator at work, bridge connected ------------- *)
\* The GUI once the key is typed, "Connect MCP" has succeeded and its two
\* callbacks have run (a state Spec reaches: ReadyGui), or the console loop
\* at its first prompt.
ReadyGui ==
    /\ driver = "gui"
    /\ main = "mainloop"
    /\ apiKey = TRUE
    /\ mcp = 1
    /\ session = [b \in Bridges |-> b = 1]
    /\ OneBridge
    /\ tools_schema = ToolCatalog
    /\ status = "MCP: Connected"
    /\ cpc = [c \in Bridges |-> IF c = 1 THEN "done" ELSE "idle"]
    /\ chat_box = <<[who |-> "SYSTEM", text |-> <<"MCP connected.">>]>>
    /\ afterQueue = <<>>
    /\ messages = <<>>
    /\ entryText = <<>>
    /\ entryEnabled = TRUE
    /\ chat_status = "Ready"
    /\ nNotReady = 0
    /\ pc = [r \in Runs |-> "idle"]

InitOrch ==
    /\ NoServer
    /\ \/ InitRuns /\ InitCli
       \/ /\ ReadyGui
          /\ resp = [r \in Runs |-> <<>>]
          /\ idx = [r \in Runs |-> 0]
          /\ tool_results = [r \in Runs |-> <<>>]
          /\ answer = [r \in Runs |-> <<>>]
          /\ exc = [r \in Runs |-> NoExc]
          /\ toolExc = [r \in Runs |-> NoExc]
          /\ mcpRef = [r \in Runs |-> 0]
          /\ invoked = [r \in Runs |-> <<>>]
          /\ inflight = {}
          /\ nextId = 0
          /\ nCalls = 0

NextOrch ==
    \/ \E p \in OpPrompts : run_operation(p)
    \/ \E t \in ChatTexts : TypeChat(t)
    \/ send_chat
    \/ \E line \in CliInputs : CliInput(line)
    \/ TkCallback
    \/ \E r \in Runs : RunStep(r)
    \/ \E c \in inflight : AbandonedCallEnds(c)

OrchSpec == InitOrch /\ [][NextOrch]_vars

(* ------------------------------ properties ------------------------------ *)
Last(seq) == seq[Len(seq)]
IdsOf(blocks) == [i \in 1..Len(blocks) |-> blocks[i].id]
RequestIds(turn) == IdsOf(SelectSeq(turn.content, IsToolUse))
ResultIds(turn) == IdsOf(SelectSeq(turn.content, IsToolResult))
Occurrences(seq, x) == Cardinality({i \in 1..Len(seq) : seq[i] = x})
IsAssistantTurn(turn) == turn.role = "assistant" /\ turn.kind = "list"
IsResultTurn(turn) == turn.role = "user" /\ turn.kind = "list"
IsPromptTurn(turn) == turn.role = "user" /\ turn.kind = "str"
OnlyToolResults(turn) ==
    turn.kind = "list" /\ \A i \in 1..Len(turn.content) : IsToolResult(turn.content[i])
\* run has been entered and has neither returned nor raised
InRun(r) == pc[r] \in {"call", "append", "tool", "wait", "toolexc", "results"}
\* run has just been left, by return or by an exception
RunLeft(r) == pc[r] \in {"returned", "raised", "crashed"} \/ (Cli /\ pc[r] = "done")
\* the turn the run appended last is resp[r], and it asks for no tool
AtFinalAssistantTurn(r) ==
    /\ pc[r] \in {"returned", "done"}
    /\ ToolUses(resp[r]) = <<>>
    /\ \E i \in 1..Len(messages) : messages[i] = ListTurn("assistant", blocks_to_dicts(resp[r]))

\* C1: every run that is over ended at an assistant turn that holds no
\* tool invocation request (nothing in either driver cancels a run).
C1_EndsAtFinalAssistantTurn == \A r \in Runs : RunLeft(r) => AtFinalAssistantTurn(r)

\* C2: every user turn of tool results in the history directly follows an
\* assistant turn, holds exactly one result for each request id of that
\* turn, and holds no result for any other id.
C2_ResultsAnswerPrecedingTurn ==
    \A i \in 1..Len(messages) :
        IsResultTurn(messages[i]) =>
            /\ i > 1
            /\ IsAssistantTurn(messages[i - 1])
            /\ \A id \in {RequestIds(messages[i - 1])[k] : k \in 1..Len(RequestIds(messages[i - 1]))} :
                   Occurrences(ResultIds(messages[i]), id) = 1
            /\ \A k \in 1..Len(ResultIds(messages[i])) :
                   Occurrences(RequestIds(messages[i - 1]), ResultIds(messages[i])[k]) >= 1

\* C4: at most one run is in flight on the history at any time.
C4_OneRunInFlight == Cardinality({r \in Runs : InRun(r)}) <= 1

\* C7: whenever a run is about to call the completion service, the last
\* turn of the history is a user turn: a prompt, or tool results only.
C7_CallSeesUserTurnLast ==
    \A r \in Runs :
        (pc[r] = "call" /\ nCalls < MaxCalls) =>
            /\ messages # <<>>
            /\ Last(messages).role = "user"
            /\ (IsPromptTurn(Last(messages)) \/ OnlyToolResults(Last(messages)))

\* C8: on one session no two tool calls are in flight at the same time.
C8_OneCallInFlightPerSession ==
    \A b \in Bridges : Cardinality({c \in inflight : c.bridge = b}) <= 1

\* C3: a tool call that raised never takes the run out of run: its except
\* clause appends one tool_result with the id of the request at hand,
\* is_error set and a body that starts with "Tool error:", the for loop
\* goes on to the next request (or ends), and after the results turn the
\* run is back at the completion call.
C3_ToolErrorBecomesResult ==
    [][\A r \in Runs :
          /\ pc[r] \in {"tool", "wait", "toolexc"} =>
                 pc'[r] \in {"tool", "wait", "toolexc", "results"}
          /\ (pc[r] = "toolexc" /\ pc'[r] # "toolexc") =>
                 /\ pc'[r] = IF idx[r] < Len(ToolUses(resp[r])) THEN "tool" ELSE "results"
                 /\ idx'[r] = IF idx[r] < Len(ToolUses(resp[r])) THEN idx[r] + 1 ELSE idx[r]
                 /\ Len(tool_results'[r]) = Len(tool_results[r]) + 1
                 /\ SubSeq(tool_results'[r], 1, Len(tool_results[r])) = tool_results[r]
                 /\ Last(tool_results'[r]).type = "tool_result"
                 /\ Last(tool_results'[r]).id = ToolUses(resp[r])[idx[r]].id
                 /\ Last(tool_results'[r]).is_error
                 /\ StartsWith(Last(tool_results'[r]).content, "Tool error:")
          /\ (pc[r] = "results" /\ pc'[r] # "results") => pc'[r] = "call"
      ]_vars

\* C3 witness: of two requests the first raised and the second returned,
\* both results are the last turn of the history, and the run is about to
\* call the completion service again.
C3_Witness ==
    \E r \in Runs :
        /\ pc[r] = "call"
        /\ nCalls < MaxCalls
        /\ Len(tool_results[r]) = 2
        /\ tool_results[r][1].is_error
        /\ ~tool_results[r][2].is_error
        /\ Last(messages) = ListTurn("user", tool_results[r])

\* C5: run is left with an answer only in the step that appends an
\* assistant turn without tool_use blocks; the step that appends a turn
\* with tool_use blocks starts the for loop, which leads to the results
\* turn and from there to the next completion call.
C5_ReturnsOnlyAtFinalTurn ==
    [][\A r \in Runs :
          /\ ((pc'[r] = "returned" /\ pc[r] # "returned")
                \/ (Cli /\ pc'[r] = "done" /\ pc[r] # "done")) =>
                 /\ pc[r] = "append"
                 /\ ToolUses(resp[r]) = <<>>
                 /\ messages' = Append(messages, ListTurn("assistant", blocks_to_dicts(resp[r])))
          /\ (pc[r] = "append" /\ ToolUses(resp[r]) # <<>> /\ pc'[r] # "append") =>
                 /\ pc'[r] = "tool"
                 /\ idx'[r] = 1
                 /\ tool_results'[r] = <<>>
          /\ (pc[r] \in {"tool", "wait", "toolexc"} /\ pc'[r] # pc[r]) =>
                 pc'[r] \in {"tool", "wait", "toolexc", "results"}
          /\ (pc[r] = "results" /\ pc'[r] # "results") =>
                 /\ pc'[r] = "call"
                 /\ Last(messages') = ListTurn("user", tool_results[r])
      ]_vars

\* C5 witness: a run has returned after an iteration that dispatched tools.
C5_Witness ==
    \E r \in Runs :
        /\ pc[r] \in {"returned", "done"}
        /\ tool_results[r] # <<>>
        /\ ToolUses(resp[r]) = <<>>

\* C6: every step keeps the history as a prefix of the new history and
\* adds at most one turn; the step of a run that leaves "append" adds
\* exactly the assistant turn of its response, the step that leaves
\* "results" adds exactly one user turn holding its tool results, and no
\* other step of a run touches the history.
C6_AppendOnly ==
    [][/\ Len(messages') \in {Len(messages), Len(messages) + 1}
       /\ SubSeq(messages', 1, Len(messages)) = messages
       /\ \A r \in Runs :
             /\ (pc[r] = "call" /\ pc'[r] # "call") =>
                    /\ pc'[r] \in {"append", "raised", "crashed"}
                    /\ messages' = messages
             /\ (pc[r] = "append" /\ pc'[r] # "append") =>
                    messages' = Append(messages, ListTurn("assistant", blocks_to_dicts(resp[r])))
             /\ (pc[r] = "results" /\ pc'[r] # "results") =>
                    /\ ToolUses(resp[r]) # <<>>
                    /\ messages' = Append(messages, ListTurn("user", tool_results[r]))
             /\ (pc[r] \in {"tool", "wait", "toolexc"} /\ pc'[r] # pc[r]) =>
                    messages' = messages
      ]_vars

\* C6 witness: the history holds a prompt, an assistant turn and a results
\* turn, and a further iteration is about to start.
C6_Witness ==
    \E r \in Runs :
        /\ pc[r] = "call"
        /\ nCalls < MaxCalls
        /\ Len(messages) >= 3
        /\ IsResultTurn(Last(messages))

\* a top-level invocation is over: its thread has ended and none of its
\* callbacks is still queued (GUI); the loop printed the answer or the
\* process died of the exception (console)
InvocationOver(r) ==
    /\ pc[r] \in {"done", "crashed"}
    /\ \A i \in 1..Len(afterQueue) : afterQueue[i].run # r \/ afterQueue[i].kind = "set_busy"
\* a line that hands the operator an answer or an error description
IsDelivery(line) ==
    \/ line.who = "CLAUDE"
    \/ line.who = "SYSTEM" /\ StartsWith(line.text, "Error:")

\* C9: every invocation that is over has delivered a text of its own to
\* the operator, the answer or an error description.
C9_EveryInvocationDeliversText ==
    Cardinality({r \in Runs : InvocationOver(r)})
        <= Cardinality({i \in 1..Len(chat_box) : IsDelivery(chat_box[i])})

\* C10: inside one iteration the call_tool invocations made so far are the
\* first requests of the turn, one each and in their order; a new one is
\* made only when every earlier one has its result; the results collected
\* are those of the first requests in their order; and every results turn
\* of the history lists the ids of the requests of an earlier assistant
\* turn in the order of that turn.
C10_InOrderOneAtATime ==
    /\ \A r \in Runs :
          pc[r] \in {"tool", "wait", "toolexc", "results"} =>
              /\ Len(tool_results[r]) =
                     (IF pc[r] = "results" THEN Len(ToolUses(resp[r])) ELSE idx[r] - 1)
              /\ IdsOf(tool_results[r]) =
                     IdsOf(SubSeq(ToolUses(resp[r]), 1, Len(tool_results[r])))
              /\ Len(invoked[r]) =
                     (IF pc[r] \in {"tool", "results"} THEN Len(tool_results[r])
                      ELSE Len(tool_results[r]) + 1)
              /\ \A k \in 1..Len(invoked[r]) :
                     invoked[r][k] = [name |-> ToolUses(resp[r])[k].name,
                                      input |-> ToolUses(resp[r])[k].input,
                                      id |-> ToolUses(resp[r])[k].id]
    /\ \A i \in 1..Len(messages) :
          IsResultTurn(messages[i]) =>
              \E j \in 1..(i - 1) :
                  /\ IsAssistantTurn(messages[j])
                  /\ RequestIds(messages[j]) = ResultIds(messages[i])
                  /\ Len(messages[i].content) = Len(RequestIds(messages[j]))

\* C10 witness: a turn with two requests has been served and its results
\* turn, two results long, is in the history.
C10_Witness ==
    \E i \in 1..Len(messages) :
        /\ IsResultTurn(messages[i])
        /\ Len(messages[i].content) = 2
        /\ messages[i].content[1].id # messages[i].content[2].id

(* ------------------ the final answer of one invocation ------------------ *)
\* text blocks the completion service may end a conversation with
AnswerTexts == {<<>>, <<"a">>, <<" ">>, <<" ", "b">>, <<"b", "\n">>}
\* blocks in the last assistant turn
MaxFinalBlocks == 3
FinalBlocks == {ApiText(t) : t \in AnswerTexts} \cup {ApiThinking}
FinalContents == UNION {[1..n -> FinalBlocks] : n \in 0..MaxFinalBlocks}

\* One invocation whose first completion call has just returned a turn
\* without tool_use blocks: run is at line 235 (GUI), main at line 185
\* (console).
InitExtract ==
    /\ NoServer
    /\ \E c \in FinalContents : resp = [r \in Runs |-> IF r = 1 THEN c ELSE <<>>]
    /\ pc = [r \in Runs |-> IF r = 1 THEN "append" ELSE "idle"]
    /\ idx = [r \in Runs |-> 0]
    /\ tool_results = [r \in Runs |-> <<>>]
    /\ answer = [r \in Runs |-> <<>>]
    /\ exc = [r \in Runs |-> NoExc]
    /\ toolExc = [r \in Runs |-> NoExc]
    /\ mcpRef = [r \in Runs |-> IF r = 1 THEN 1 ELSE 0]
    /\ invoked = [r \in Runs |-> <<>>]
    /\ inflight = {}
    /\ nextId = 0
    /\ nCalls = 1
    /\ nNotReady = 0
    /\ afterQueue = <<>>
    /\ entryText = <<>>
    /\ \/ /\ driver = "cli"
          /\ main = "running"
          /\ apiKey = TRUE
          /\ mcp = 1
          /\ session = [b \in Bridges |-> b = 1]
          /\ OneBridge
          /\ tools_schema = ToolCatalog
          /\ status = NoVal
          /\ cpc = [c \in Bridges |-> "idle"]
          /\ messages = <<StrTurn("user", <<"q">>)>>
          /\ chat_box = <<>>
          /\ chat_status = "Ready"
          /\ entryEnabled = TRUE
       \/ /\ driver = "gui"
          /\ main = "mainloop"
          /\ apiKey = TRUE
          /\ mcp = 1
          /\ session = [b \in Bridges |-> b = 1]
          /\ OneBridge
          /\ tools_schema = ToolCatalog
          /\ status = "MCP: Connected"
          /\ cpc = [c \in Bridges |-> IF c = 1 THEN "done" ELSE "idle"]
          /\ \E p \in OpPrompts :
                /\ messages = <<StrTurn("user", p)>>
                /\ chat_box = <<[who |-> "SYSTEM", text |-> <<"MCP connected.">>],
                                [who |-> "YOU", text |-> p]>>
          /\ chat_status = "Running..."
          /\ entryEnabled = FALSE

NextExtract ==
    \/ \E r \in Runs : AppendAssistant(r)
    \/ \E r \in Runs : ScheduleAnswer(r)
    \/ \E r \in Runs : Finally(r)
    \/ TkCallback

ExtractSpec == InitExtract /\ [][NextExtract]_vars

\* the Text segments of a turn, every one of them, joined by "\n", trimmed
AllTextJoined(content) == Strip(Join(<<"\n">>, TextOf(SelectSeq(content, IsText))))

\* the lines of the non-empty Text segments of a turn, a "\n" between two
RECURSIVE TextLines(_)
TextLines(blocks) ==
    IF blocks = <<>> THEN <<>>
    ELSE LET b == Head(blocks)
             rest == TextLines(Tail(blocks))
         IN  IF b.type = "text" /\ b.text # <<>>
             THEN IF \E i \in 2..Len(blocks) : blocks[i].type = "text" /\ blocks[i].text # <<>>
                  THEN b.text \o <<"\n">> \o rest
                  ELSE b.text
             ELSE rest

\* run has returned (GUI) / the loop has printed (console)
HasAnswered(r) == pc[r] \in {"returned", "finally", "done"}

\* C11 as stated: the final answer is the Text segments of the last
\* assistant turn joined by newlines and trimmed, whatever the turn holds
\* (the empty string when it has no Text segment or only empty ones).
C11_AnswerIsJoinedText ==
    \A r \in Runs :
        HasAnswered(r) =>
            /\ Gui => answer[r] = AllTextJoined(resp[r])
            /\ Cli => Last(chat_box).text = <<"Claude>", " ">> \o AllTextJoined(resp[r])

\* C11 amended: the final answer is the non-empty Text segments of the last
\* assistant turn, in their order, joined by newlines and trimmed; when
\* that string is empty the GUI's run returns "(no text returned)" in its
\* place, and the console loop prints the empty string.
C11_AnswerIsJoinedTextOrPlaceholder ==
    \A r \in Runs :
        HasAnswered(r) =>
            /\ Gui => answer[r] = (IF Strip(TextLines(resp[r])) # <<>>
                                   THEN Strip(TextLines(resp[r]))
                                   ELSE <<"(no text returned)">>)
            /\ Cli => Last(chat_box) =
                          [who |-> "CLAUDE",
                           text |-> <<"Claude>", " ">> \o Strip(TextLines(resp[r]))]

\* C11 witness: run has returned the answer of a turn of three Text
\* segments, the middle one empty.
C11_Witness ==
    /\ Gui
    /\ pc[1] = "done"
    /\ resp[1] = <<ApiText(<<"a">>), ApiText(<<>>), ApiText(<<" ", "b">>)>>
    /\ answer[1] = <<"a", "\n", " ", "b">>
    /\ \E i \in 1..Len(chat_box) : chat_box[i] = [who |-> "CLAUDE", text |-> answer[1]]

(* ---------------------------- the MCP servers --------------------------- *)
\* A server process is a program of its own: in its behaviours the
\* orchestrator's variables stay as they are.
orchVars == <<driver, main, guiVars, uiVars, messages, runVars, envVars, nNotReady>>

NoOrchestrator ==
    /\ InitRuns
    /\ driver = NoVal
    /\ main = NoVal
    /\ apiKey = FALSE
    /\ mcp = 0
    /\ session = [b \in Bridges |-> FALSE]
    /\ NoBridgeUse
    /\ tools_schema = <<>>
    /\ status = NoVal

\* the tools that are more than one call of the gateway
JobTools == {"planning_execute_job", "planning_run_job_and_wait", "planning_watch_job"}

\* tool calls one server is given
MaxToolCalls == 2
\* seconds on the server's clock, which moves in steps of TickSeconds
MaxNow == 60
TickSeconds == 30

Dualbase == "epm_mcp_readonly_dualbase.py"
ReadOnly == "epm_mcp_readonly.py"
PbcsReadOnly == "pbcs_mcp_readonly.py"
Copilot == "pbcs_copilot_mcp_real.py"

\* the function of each program that makes the outbound call
GatewayOf(srv) ==
    CASE srv = Dualbase -> "_http_get"
      [] srv = ReadOnly -> "epm_get"
      [] srv = PbcsReadOnly -> "pbcs_get"
      [] srv = Copilot -> "pbcs_request"

\* the function a tool of each program enters to reach the enterprise API
EntryOf(srv) == IF srv = Dualbase THEN "epm_get_dualbase" ELSE GatewayOf(srv)

\* cfg.base_url / cfg.service_url, cfg.idcs_token_url
BaseUrl(srv) == IF srv = ReadOnly THEN "https://host/epmcloud" ELSE "https://host"
TokenUrl == "https://idcs/oauth2/v1/token"
Paths == {"/interop/rest/v2/files/list"}

\* what the enterprise API may answer
StatusCodes == {200, 299, 300, 401, 404, 500}
Reason(code) ==
    CASE code \in {200, 299} -> "OK"
      [] code = 300 -> "Multiple Choices"
      [] code = 401 -> "Unauthorized"
      [] code = 404 -> "Not Found"
      [] OTHER -> "Internal Server Error"
Bodies ==
    {EmptyBody,
     TextBody("<html>"),
     JsonBody(JDict(<<KV("items", JList(<<JDict(<<KV("name", JStr("f1")),
                                                  KV("Password", JStr("hunter2"))>>)>>))>>)),
     JsonBody(JDict(<<KV("message", JStr("bad request")),
                      KV("access_token", JStr("tok0"))>>)),
     JsonBody(JDict(<<KV("details", JDict(<<KV("password", JStr("hunter2"))>>))>>)),
     JsonBody(JList(<<JDict(<<KV("secret", JStr("s3"))>>)>>))}
ApiReplies ==
    {RequestException("Connection refused")}
        \cup {Response(c, Reason(c), b) : c \in StatusCodes, b \in Bodies}

\* what the token issuer may answer
TokenReplies ==
    {RequestException("Connection refused"),
     Response(200, "OK", JsonBody(JDict(<<KV("access_token", JStr("tok1")),
                                          KV("expires_in", JNum(60))>>))),
     Response(200, "OK", JsonBody(JDict(<<KV("access_token", JStr("tok2"))>>))),
     Response(200, "OK", JsonBody(JDict(<<KV("error", JStr("no token"))>>))),
     Response(200, "OK", JsonBody(JList(<<>>))),
     Response(200, "OK", TextBody("<html>")),
     Response(401, "Unauthorized", JsonBody(JDict(<<KV("error", JStr("invalid_client")),
                                                    KV("client_secret", JStr("s3"))>>)))}

\* a request on the wire: where it goes, its url, and the reply once there
Request(to, url) == [to |-> to, url |-> url, reply |-> NoReply]
Sent(to) == SelectSeq(wire, LAMBDA q : q.to = to)
Answered(reply) == [wire EXCEPT ![Len(wire)].reply = reply]
Pending == wire[Len(wire)]

\* the server at the start of its life, no call made yet
InitServer ==
    /\ NoOrchestrator
    /\ cfg = NoCfg
    /\ NoJob
    /\ server \in {Dualbase, ReadOnly, PbcsReadOnly, Copilot}
    /\ auth_mode \in (IF server = Copilot THEN {"basic", "oauth2"} ELSE {NoVal})
    /\ tool = NoVal
    /\ arg = JNull
    /\ spc = "idle"
    /\ wire = <<>>
    /\ r1 = NoRet
    /\ r2 = NoRet
    /\ ret = NoRet
    /\ token_cache = EmptyCache
    /\ now = 0
    /\ nStarted = 0

\* a tool of the server is called and reaches its gateway: epm_get_dualbase
\* line 116, epm_get line 70, pbcs_get line 88, pbcs_request lines 216-223
EnterTool(path) ==
    /\ spc \in {"idle", "done", "raised"}
    /\ nStarted < MaxToolCalls
    /\ nStarted' = nStarted + 1
    /\ tool' = EntryOf(server)
    /\ arg' = JStr(path)
    /\ wire' = <<>>
    /\ r1' = NoRet
    /\ r2' = NoRet
    /\ ret' = NoRet
    /\ spc' = IF auth_mode = "oauth2" THEN "token" ELSE "send"
    /\ UNCHANGED <<jobVars, orchVars, server, auth_mode, token_cache, now>>

\* (mutant of CachedToken) the cache never answers
CachedToken_Never == ""

\* (mutant of CachedToken) no safety margin before the expiry
CachedToken_NoMargin ==
    IF token_cache.token # "" /\ now < token_cache.expires_at
    THEN token_cache.token ELSE ""

\* TokenCache.get
CachedToken ==
    IF token_cache.token # "" /\ now < token_cache.expires_at - 30
    THEN token_cache.token ELSE ""

\* max(0, int(expires_in))
Max0(i) == IF i > 0 THEN i ELSE 0

\* True, {"access_token": token, "cached": cached}
TokenOk(token, cached) ==
    [ok |-> TRUE,
     tok |-> JDict(<<KV("access_token", JStr(token)), KV("cached", JBool(cached))>>)]
\* False, tok
TokenNotOk(tok) == [ok |-> FALSE, tok |-> tok]

\* get_oauth_token up to requests.post: the cached token, or the request
\* to the issuer
AcquireToken ==
    /\ spc = "token"
    /\ IF CachedToken # ""
       THEN /\ ok_tok' = TokenOk(CachedToken, TRUE)
            /\ spc' = "send"
            /\ UNCHANGED <<wire, nIssued>>
       ELSE /\ wire' = Append(wire, Request("idcs", TokenUrl))
            /\ nIssued' = nIssued + 1
            /\ spc' = "token_await"
            /\ UNCHANGED ok_tok
    /\ UNCHANGED <<cfg, callee, exec_res, start, polls, last_status, details, thr, dispatch>>
    /\ UNCHANGED <<orchVars, server, auth_mode, tool, arg, r1, r2, ret, token_cache, now,
                   nStarted>>

\* get_oauth_token's payload: resp.json(), or {"raw_text": resp.text}
TokenPayload(r) ==
    IF r.body.kind = "json" THEN r.body.json
    ELSE JDict(<<KV("raw_text", JStr(r.body.text))>>)

\* {"ok": False, **redact(tok)}
TokenFailure(tok) == Returned(Merge(JDict(<<KV("ok", JBool(FALSE))>>), redact(tok)))

\* what get_oauth_token makes of the issuer's reply (lines 183-200): the
\* pair it returns, or the exception of payload.get on a payload that is
\* not a dict
TokenOutcome(r) ==
    LET payload == TokenPayload(r) IN
    IF r.kind = "transport"
    THEN Returned(JDict(<<KV("error", JStr("OAUTH_NETWORK_ERROR")),
                          KV("message", JStr(r.err))>>))
    ELSE IF r.status_code >= 300
    THEN Returned(JDict(<<KV("error", JStr("OAUTH_HTTP_ERROR")),
                          KV("status_code", JNum(r.status_code)),
                          KV("response", payload)>>))
    ELSE IF ~IsDict(payload)
    THEN Raised(NoGetError)
    ELSE IF ~Truthy(Get(payload, "access_token"))
    THEN Returned(JDict(<<KV("error", JStr("OAUTH_BAD_RESPONSE")),
                          KV("response", payload)>>))
    ELSE Returned(JDict(<<KV("access_token", Get(payload, "access_token")),
                          KV("cached", JBool(FALSE))>>))

\* the issuer's reply carries a token
Issued(r) == TokenOutcome(r).kind = "value" /\ HasKey(TokenOutcome(r).value, "access_token")

\* _TOKEN_CACHE.set(token, int(expires_in)), expires_in being
\* payload.get("expires_in", 3600)
CacheSet(r) ==
    LET payload == TokenPayload(r) IN
    [token |-> Get(payload, "access_token").s,
     expires_at |-> now + Max0(IF HasKey(payload, "expires_in")
                               THEN Get(payload, "expires_in").n
                               ELSE 3600)]

\* (mutant of CacheKept) a failed issuance empties the cache
CacheKept_Emptied(cache) == EmptyCache

\* the cache after an issuance that failed: no line of get_oauth_token
\* writes it before line 199
CacheKept(cache) == cache

\* get_oauth_token from the issuer's reply on (lines 183-200), and
\* pbcs_request's lines 223-226
TokenAnswered(r) ==
    /\ spc = "token_await"
    /\ tool \notin JobTools
    /\ wire' = Answered(r)
    /\ LET out == TokenOutcome(r) IN
       IF out.kind = "raised"
       THEN /\ ret' = out
            /\ spc' = "raised"
            /\ token_cache' = CacheKept(token_cache)
            /\ UNCHANGED ok_tok
       ELSE IF ~Issued(r)
       THEN /\ ok_tok' = TokenNotOk(out.value)
            /\ ret' = TokenFailure(out.value)
            /\ spc' = "done"
            /\ token_cache' = CacheKept(token_cache)
       ELSE /\ token_cache' = CacheSet(r)
            /\ ok_tok' = [ok |-> TRUE, tok |-> out.value]
            /\ spc' = "send"
            /\ UNCHANGED ret
    /\ UNCHANGED <<cfg, callee, exec_res, start, polls, last_status, details, thr, nIssued, dispatch>>
    /\ UNCHANGED <<orchVars, server, auth_mode, tool, arg, r1, r2, now, nStarted>>

\* the path a tool function asks for (the job id written as 7)
JobPath(fn) ==
    CASE fn = "planning_execute_job" -> "/HyperionPlanning/rest/v3/applications/Vision/jobs"
      [] fn = "planning_get_job_status" ->
             "/HyperionPlanning/rest/v3/applications/Vision/jobs/7"
      [] OTHER -> "/HyperionPlanning/rest/v3/applications/Vision/jobs/7/details"

\* the url of the request the call is about to send: url1 or url2 in
\* epm_get_dualbase, url in the other gateways
NextUrl ==
    IF tool \in JobTools THEN BaseUrl(server) \o JobPath(callee)
    ELSE IF tool = "epm_get_dualbase" /\ r1 # NoRet
    THEN BaseUrl(server) \o "/epmcloud" \o arg.s
    ELSE BaseUrl(server) \o arg.s
\* the candidate base it goes to, or the tool function that asks
NextBase ==
    IF tool \in JobTools THEN callee
    ELSE IF tool # "epm_get_dualbase" THEN "api"
    ELSE IF r1 = NoRet THEN "base_url" ELSE "epmcloud_context"

\* requests.get(url, ..) / requests.request(..): the request leaves
SendRequest ==
    /\ spc = "send"
    /\ wire' = Append(wire, Request(NextBase, NextUrl))
    /\ spc' = "await"
    /\ UNCHANGED <<jobVars, orchVars, server, auth_mode, tool, arg, r1, r2, ret, token_cache, now,
                   nStarted>>

\* (mutant of AfterGateway) a transport failure sends the request again
AfterGateway_Retry(out) ==
    IF Get(out.value, "error") = JStr("NETWORK_ERROR") THEN "send" ELSE "done"

\* where a gateway function called by a tool goes with its result: it
\* returns it (lines 88, 96-105 of _http_get and their likes)
AfterGateway(out) == "done"

\* (mutant of NotFound) any HTTP error
NotFound_AnyHttpError(result) == Get(result, "error") = JStr("HTTP_ERROR")

\* r1.get("status_code") == 404
NotFound(result) == Get(result, "status_code") = JNum(404)

\* (mutant of Tagged) every result tagged as served by the canonical base
Tagged_Canonical(result, base) == Put(result, "base_used", JStr("base_url"))

\* r["base_used"] = base
Tagged(result, base) == Put(result, "base_used", JStr(base))

\* the reply is there and the gateway function runs to its end: its result
\* goes to the tool (epm_get, pbcs_get, pbcs_request) or to r1 / r2
\* (epm_get_dualbase, lines 117 and 125); an exception leaves the tool
GatewayReturns(r) ==
    /\ spc = "await"
    /\ tool \notin JobTools
    /\ wire' = Answered(r)
    /\ LET out == GatewayOutcome(GatewayOf(server), r, Pending.url) IN
       IF out.kind = "raised"
       THEN ret' = out /\ spc' = "raised" /\ UNCHANGED <<r1, r2>>
       ELSE IF tool # "epm_get_dualbase"
       THEN ret' = out /\ spc' = AfterGateway(out) /\ UNCHANGED <<r1, r2>>
       ELSE IF AfterGateway(out) # "done"
       THEN spc' = AfterGateway(out) /\ UNCHANGED <<r1, r2, ret>>
       ELSE IF r1 = NoRet
       THEN r1' = out /\ spc' = "after_r1" /\ UNCHANGED <<r2, ret>>
       ELSE r2' = out /\ spc' = "after_r2" /\ UNCHANGED <<r1, ret>>
    /\ UNCHANGED <<jobVars, orchVars, server, auth_mode, tool, arg, token_cache, now, nStarted>>

\* epm_get_dualbase lines 118-123 and 131-132
AfterBaseUrl ==
    /\ spc = "after_r1"
    /\ IF Truthy(Get(r1.value, "ok"))
       THEN /\ r1' = Returned(Tagged(r1.value, "base_url"))
            /\ ret' = r1'
            /\ spc' = "done"
       ELSE IF NotFound(r1.value)
       THEN spc' = "send" /\ UNCHANGED <<r1, ret>>
       ELSE ret' = r1 /\ spc' = "done" /\ UNCHANGED r1
    /\ UNCHANGED <<jobVars, orchVars, server, auth_mode, tool, arg, wire, r2, token_cache, now,
                   nStarted>>

\* epm_get_dualbase lines 126-129
AfterEpmcloud ==
    /\ spc = "after_r2"
    /\ IF Truthy(Get(r2.value, "ok"))
       THEN /\ r2' = Returned(Tagged(r2.value, "epmcloud_context"))
            /\ ret' = r2'
       ELSE /\ ret' = Returned(JDict(<<KV("ok", JBool(FALSE)),
                                       KV("attempts", JList(<<r1.value, r2.value>>))>>))
            /\ UNCHANGED r2
    /\ spc' = "done"
    /\ UNCHANGED <<jobVars, orchVars, server, auth_mode, tool, arg, wire, r1, token_cache, now,
                   nStarted>>

\* time passes (it matters to the token cache only)
Tick ==
    /\ auth_mode = "oauth2"
    /\ now < MaxNow
    /\ now' = now + TickSeconds
    /\ UNCHANGED <<jobVars, orchVars, server, auth_mode, tool, arg, spc, wire, r1, r2, ret,
                   token_cache, nStarted>>

NextServer ==
    \/ \E path \in Paths : EnterTool(path)
    \/ AcquireToken
    \/ \E r \in TokenReplies : TokenAnswered(r)
    \/ SendRequest
    \/ \E r \in ApiReplies : GatewayReturns(r)
    \/ AfterBaseUrl
    \/ AfterEpmcloud
    \/ Tick

ServerSpec == InitServer /\ [][NextServer]_vars

(* ------------------------ dual-base resolution -------------------------- *)
InDualbase == tool = "epm_get_dualbase"
CallOver == spc \in {"done", "raised"}
Succeeded(r) == r.kind = "http" /\ r.status_code < 300
Failed(r) == r.kind = "transport" \/ (r.kind = "http" /\ r.status_code >= 300)
Was404(r) == r.kind = "http" /\ r.status_code = 404
IsOk(result) == Get(result, "ok") = JBool(TRUE)

\* C12: in epm_get_dualbase the first request goes to base A (base_url);
\* a request to base B (the /epmcloud context) is the second request and is
\* made only after base A's request was answered with status 404; base A
\* is requested once, base B at most once, and a call that is over has
\* requested base A exactly once.
C12_EpmcloudOnlyAfter404 ==
    InDualbase =>
        /\ Len(Sent("base_url")) <= 1
        /\ Len(Sent("epmcloud_context")) <= 1
        /\ wire # <<>> => wire[1].to = "base_url"
        /\ \A i \in 1..Len(wire) :
               wire[i].to = "epmcloud_context" => i = 2 /\ Was404(wire[1].reply)
        /\ CallOver => Len(Sent("base_url")) = 1
        /\ (wire # <<>> /\ wire[1].reply.kind # "none" /\ ~Was404(wire[1].reply)) =>
               Len(wire) = 1

\* C12 witness: base A answered 404, base B was then asked and the call
\* is over.
C12_Witness ==
    /\ InDualbase
    /\ spc = "done"
    /\ Len(wire) = 2
    /\ Was404(wire[1].reply)
    /\ wire[2].to = "epmcloud_context"
    /\ wire[2].url = "https://host/epmcloud/interop/rest/v2/files/list"

\* C13: a successful result of epm_get_dualbase carries base_used; it is
\* "base_url" exactly when base A's request succeeded and
\* "epmcloud_context" exactly when base A answered 404 and base B's request
\* succeeded; status_code, url and response (the parsed body, redacted) are
\* those of the reply of the base it names.
C13_TaggedWithServingBase ==
    (InDualbase /\ spc = "done" /\ IsOk(ret.value)) =>
        LET tag == Get(ret.value, "base_used")
            served == IF tag = JStr("base_url") THEN wire[1] ELSE wire[Len(wire)]
        IN  /\ tag \in {JStr("base_url"), JStr("epmcloud_context")}
            /\ tag = JStr("base_url") <=> Succeeded(wire[1].reply)
            /\ tag = JStr("epmcloud_context") <=>
                   (Was404(wire[1].reply) /\ Len(wire) = 2 /\ Succeeded(wire[2].reply))
            /\ served.to = tag.s
            /\ Get(ret.value, "status_code") = JNum(served.reply.status_code)
            /\ Get(ret.value, "url") = JStr(served.url)
            /\ Get(ret.value, "response") = redact(ParsePayload(served.reply))

\* C13 witness: base A answered 404, base B served a body with a list.
C13_Witness ==
    /\ InDualbase
    /\ spc = "done"
    /\ Get(ret.value, "base_used") = JStr("epmcloud_context")
    /\ Get(ret.value, "status_code") = JNum(200)
    /\ IsDict(Get(ret.value, "response"))
    /\ IsList(Get(Get(ret.value, "response"), "items"))

\* the result the gateway owes the caller for a failed request
IsFailureOf(result, r) ==
    /\ Get(result, "ok") = JBool(FALSE)
    /\ r.kind = "transport" =>
           /\ Get(result, "error") = JStr("NETWORK_ERROR")
           /\ Get(result, "message") = JStr(r.err)
    /\ r.kind = "http" =>
           /\ Get(result, "error") = JStr("HTTP_ERROR")
           /\ Get(result, "status_code") = JNum(r.status_code)

\* C14: when base A's request failed with anything but a 404, the call
\* returns base A's failure result: its error kind, status code and message.
C14_OtherFailureReturnedAsIs ==
    (InDualbase /\ CallOver /\ Failed(wire[1].reply) /\ ~Was404(wire[1].reply)) =>
        /\ ret.kind = "value"
        /\ ret = r1
        /\ IsFailureOf(ret.value, wire[1].reply)
        /\ ~HasKey(ret.value, "attempts")

\* C15: when base A answered 404 and base B's request failed too, the call
\* returns a failure with both attempts, base A's first and base B's second.
C15_BothAttemptsReturned ==
    (InDualbase /\ CallOver /\ Len(wire) = 2 /\ Was404(wire[1].reply)
       /\ Failed(wire[2].reply)) =>
        /\ ret.kind = "value"
        /\ Get(ret.value, "ok") = JBool(FALSE)
        /\ Get(ret.value, "attempts") = JList(<<r1.value, r2.value>>)
        /\ IsFailureOf(r1.value, wire[1].reply)
        /\ IsFailureOf(r2.value, wire[2].reply)

(* ----------------------------- the gateway ------------------------------ *)
\* a tool that is one call of the gateway function: epm_get, pbcs_get,
\* pbcs_request
InGateway == tool \in {"epm_get", "pbcs_get", "pbcs_request"}
\* the reply to the outbound call of a gateway call that is over
ApiReply == Sent("api")[1].reply
OutboundAnswered == InGateway /\ CallOver /\ Sent("api") # <<>>

\* C16: a gateway call whose outbound call was answered ends in exactly one
\* of three results: ok = False with error NETWORK_ERROR exactly when the
\* transport failed, ok = False with error HTTP_ERROR and the status code
\* exactly when a response of status >= 300 arrived, ok = True with the
\* status code exactly when a response of status < 300 arrived.
C16_ThreeOutcomes ==
    OutboundAnswered =>
        /\ ret.kind = "value"
        /\ (Get(ret.value, "ok") = JBool(FALSE)
              /\ Get(ret.value, "error") = JStr("NETWORK_ERROR"))
             <=> ApiReply.kind = "transport"
        /\ (Get(ret.value, "ok") = JBool(FALSE)
              /\ Get(ret.value, "error") = JStr("HTTP_ERROR")
              /\ Get(ret.value, "status_code") = JNum(ApiReply.status_code))
             <=> (ApiReply.kind = "http" /\ ApiReply.status_code >= 300)
        /\ (Get(ret.value, "ok") = JBool(TRUE)
              /\ Get(ret.value, "status_code") = JNum(ApiReply.status_code))
             <=> (ApiReply.kind = "http" /\ ApiReply.status_code < 300)

\* C17: no call of a gateway function ends by an exception: once its
\* outbound call is answered, whatever the answer (transport failure, any
\* status, any body), the call returns a dict with the key "ok".
C17_GatewayNeverRaises ==
    (CallOver /\ wire # <<>> /\ Pending.to # "idcs") =>
        /\ ret.kind = "value"
        /\ IsDict(ret.value)
        /\ HasKey(ret.value, "ok")

\* C18: one call of a gateway function sends at most one request to the
\* enterprise API, also when the request fails: a tool that is one gateway
\* call has sent at most one, epm_get_dualbase at most one to each base
\* (one per _http_get), and a call that ended in NETWORK_ERROR or
\* HTTP_ERROR has not sent a request after the failed one.
C18_OneRequestPerCall ==
    /\ InGateway => Len(Sent("api")) <= 1
    /\ InDualbase =>
           /\ Len(Sent("base_url")) <= 1
           /\ Len(Sent("epmcloud_context")) <= 1
           /\ Len(wire) <= 2
    /\ \A i \in 1..Len(wire) :
           (wire[i].to # "idcs" /\ Failed(wire[i].reply)) =>
               \A j \in (i + 1)..Len(wire) : wire[j].url # wire[i].url

\* C18 witness: a gateway call whose request met a transport failure is
\* over, with NETWORK_ERROR and that one request on the wire.
C18_Witness ==
    /\ tool = "pbcs_request"
    /\ spc = "done"
    /\ Len(Sent("api")) = 1
    /\ ApiReply.kind = "transport"
    /\ Get(ret.value, "error") = JStr("NETWORK_ERROR")

\* no sensitive key of o, at any depth, has a value other than the marker
RECURSIVE NoSecretIn(_)
NoSecretIn(o) ==
    IF IsDict(o)
    THEN \A i \in 1..Len(o.items) :
             IF Lower(o.items[i].k) \in REDACT_KEYS
             THEN o.items[i].v = Redacted
             ELSE NoSecretIn(o.items[i].v)
    ELSE IF IsList(o)
    THEN \A i \in 1..Len(o.items) : NoSecretIn(o.items[i])
    ELSE TRUE

\* C20: whatever a call of the gateway or of a tool built on it returns
\* (success, HTTP error with its message, token failure, both attempts of
\* the dual-base resolution), no sensitive key in it has a value other than
\* the redaction marker.
C20_NothingSensitiveReturned ==
    (spc = "done" /\ ret.kind = "value") => NoSecretIn(ret.value)

(* ------------------------------- redact --------------------------------- *)
\* nesting depth of the values handed to redact
MaxDepth == 3
\* how often redact is applied, the first time to the value, then to its
\* own result
MaxApplications == 2
SampleKeys == {"Password", "secret", "name"}
Leaves == {JStr("x"), Redacted}

\* dicts of one or two items and lists of one or two values, one of them
\* nested up to depth d (in a dict the first item, in a list the last value)
RECURSIVE Nested(_)
Nested(d) ==
    IF d = 0 THEN Leaves
    ELSE LET below == Nested(d - 1) IN
         below
           \cup {JDict(<<>>), JList(<<>>)}
           \cup {JDict(<<KV(k, v)>>) : k \in SampleKeys, v \in below}
           \cup {JDict(<<KV(k[1], v), KV(k[2], w)>>) :
                     k \in {q \in SampleKeys \X SampleKeys : q[1] # q[2]},
                     v \in below, w \in Leaves}
           \cup {JList(<<v>>) : v \in below}
           \cup {JList(<<w, v>>) : v \in below, w \in Leaves}

\* redact is about to be called on a value
InitRedact ==
    /\ NoOrchestrator
    /\ cfg = NoCfg
    /\ NoJob
    /\ server = Copilot
    /\ auth_mode = "basic"
    /\ tool = "redact"
    /\ arg \in Nested(MaxDepth)
    /\ spc = "call"
    /\ wire = <<>>
    /\ r1 = NoRet
    /\ r2 = NoRet
    /\ ret = NoRet
    /\ token_cache = EmptyCache
    /\ now = 0
    /\ nStarted = 1

\* redact(obj) runs
Redact ==
    /\ tool = "redact"
    /\ spc = "call"
    /\ ret' = Returned(redact(arg))
    /\ spc' = "done"
    /\ UNCHANGED <<jobVars, orchVars, server, auth_mode, tool, arg, wire, r1, r2, token_cache, now,
                   nStarted>>

\* redact is called on what it returned
RedactAgain ==
    /\ tool = "redact"
    /\ spc = "done"
    /\ nStarted < MaxApplications
    /\ nStarted' = nStarted + 1
    /\ arg' = ret.value
    /\ ret' = NoRet
    /\ spc' = "call"
    /\ UNCHANGED <<jobVars, orchVars, server, auth_mode, tool, wire, r1, r2, token_cache, now>>

NextRedact == Redact \/ RedactAgain

RedactSpec == InitRedact /\ [][NextRedact]_vars

\* the keys of the model that match the sensitive set whatever their case
IsSensitiveKey(k) ==
    k \in {"password", "Password", "secret", "SECRET", "authorization", "Authorization",
           "access_token", "client_secret"}

\* y is x with the value of every sensitive key replaced by the marker and
\* nothing else changed
RECURSIVE IsRedactionOf(_, _)
IsRedactionOf(y, x) ==
    /\ y.t = x.t
    /\ IF x.t \in {"dict", "list"}
       THEN /\ Len(y.items) = Len(x.items)
            /\ \A i \in 1..Len(x.items) :
                   IF x.t = "list" THEN IsRedactionOf(y.items[i], x.items[i])
                   ELSE /\ y.items[i].k = x.items[i].k
                        /\ IF IsSensitiveKey(x.items[i].k)
                           THEN y.items[i].v = Redacted
                           ELSE IsRedactionOf(y.items[i].v, x.items[i].v)
       ELSE y = x

\* C19: redact returns, for every nested value, that value with the value
\* of every key matching the sensitive set (whatever its case, at any
\* depth) replaced by the marker and all else unchanged; and redact applied
\* to its own result returns it unchanged.
C19_RedactTotalIdempotent ==
    (tool = "redact" /\ spc = "done") =>
        /\ ret.kind = "value"
        /\ IsRedactionOf(ret.value, arg)
        /\ nStarted = 2 => ret.value = arg

\* C19 witness: redact has replaced the value of a mixed-case sensitive
\* key three levels down, inside a list inside a dict.
C19_Witness ==
    /\ tool = "redact"
    /\ spc = "done"
    /\ arg = JDict(<<KV("name", JList(<<JDict(<<KV("Password", JStr("x"))>>)>>))>>)
    /\ ret.value = JDict(<<KV("name", JList(<<JDict(<<KV("Password", Redacted)>>)>>))>>)

(* --------------------------- the token cache ---------------------------- *)
\* now < expires_at - 30 for a token that is there
CacheValid == token_cache.token # "" /\ now < token_cache.expires_at - 30
\* the step in which get_oauth_token, entered by pbcs_request, consults
\* the cache
Acquires == spc = "token" /\ spc' # "token"
\* the step in which the issuer's reply is dealt with
IssuerAnswers == spc = "token_await" /\ spc' # "token_await"
IssuerReply == wire'[Len(wire')].reply

\* C21: a call of get_oauth_token that finds a token in the cache while
\* now < expires_at - 30 returns (True, that token, cached) at once: no
\* request goes to the token issuer and the cache stays as it is.
C21_CachedTokenReused ==
    [][(Acquires /\ CacheValid) =>
           /\ ok_tok' = TokenOk(token_cache.token, TRUE)
           /\ spc' = "send"
           /\ wire' = wire
           /\ nIssued' = nIssued
           /\ token_cache' = token_cache]_vars

\* C21 witness: the second call of the server has taken from the cache
\* the token the first call had issued; the issuer was asked once.
C21_Witness ==
    /\ nStarted = 2
    /\ spc = "send"
    /\ wire = <<>>
    /\ nIssued = 1
    /\ ok_tok = TokenOk("tok1", TRUE)
    /\ token_cache = [token |-> "tok1", expires_at |-> 60]

\* C22: a call of get_oauth_token that finds the cache empty, or
\* now >= expires_at - 30, sends one request to the token issuer; when the
\* reply carries a token the cache holds that token with the expiry
\* now + expires_in (3600 when the reply names none), the call returns
\* (True, the new token, not cached), and no call sends a second request to
\* the issuer.
C22_ReissuedOnceWhenStale ==
    /\ [](Len(Sent("idcs")) <= 1)
    /\ [][/\ (Acquires /\ ~CacheValid) =>
                /\ wire' = Append(wire, Request("idcs", TokenUrl))
                /\ nIssued' = nIssued + 1
                /\ spc' = "token_await"
                /\ token_cache' = token_cache
          /\ (IssuerAnswers /\ Issued(IssuerReply)) =>
                LET payload == IssuerReply.body.json IN
                /\ token_cache'.token = Get(payload, "access_token").s
                /\ token_cache'.expires_at =
                       now + (IF HasKey(payload, "expires_in")
                              THEN Get(payload, "expires_in").n ELSE 3600)
                /\ ok_tok' = TokenOk(token_cache'.token, FALSE)
                /\ nIssued' = nIssued
                /\ spc' = "send"]_vars

\* C22 witness: the token of the first call had 60 seconds; 30 seconds
\* later the second call asked the issuer again and stored the new token.
C22_Witness ==
    /\ nStarted = 2
    /\ now = 30
    /\ spc = "send"
    /\ nIssued = 2
    /\ Len(Sent("idcs")) = 1
    /\ ok_tok = TokenOk("tok2", FALSE)
    /\ token_cache = [token |-> "tok2", expires_at |-> 3630]

\* the issuance failed: transport failure, status >= 300, or a reply
\* without access_token
IssuanceFailed(r) ==
    \/ r.kind = "transport"
    \/ r.status_code >= 300
    \/ ~IsDict(TokenPayload(r))
    \/ ~Truthy(Get(TokenPayload(r), "access_token"))

\* C23: when the issuance fails the call reports it (pbcs_request returns
\* ok = False with the OAUTH_ error, or the exception of the reply that is
\* no object leaves the call), the cache is exactly as before the call, no
\* request goes to the enterprise API, and the cache being still stale the
\* next call asks the issuer again.
C23_FailedIssuanceKeepsCache ==
    [][(IssuerAnswers /\ IssuanceFailed(IssuerReply)) =>
           /\ token_cache' = token_cache
           /\ ~CacheValid'
           /\ spc' \in {"done", "raised"}
           /\ spc' = "raised" => ret'.kind = "raised"
           /\ spc' = "done" =>
                  /\ ret'.kind = "value"
                  /\ Get(ret'.value, "ok") = JBool(FALSE)
                  /\ Get(ret'.value, "error") \in
                         {JStr("OAUTH_NETWORK_ERROR"), JStr("OAUTH_HTTP_ERROR"),
                          JStr("OAUTH_BAD_RESPONSE")}
           /\ Len(wire') = 1]_vars

\* C23 witness: the stale token of the first call is still in the cache
\* after the second call's issuance was refused with 401.
C23_Witness ==
    /\ nStarted = 2
    /\ spc = "done"
    /\ nIssued = 2
    /\ Get(ret.value, "error") = JStr("OAUTH_HTTP_ERROR")
    /\ token_cache = [token |-> "tok1", expires_at |-> 60]
    /\ now >= 30

(* ------------------ get_oauth_token called concurrently ----------------- *)
\* Nothing in pbcs_copilot_mcp_real.py keeps two tool calls apart: when the
\* framework runs the tool functions on worker threads, the calls of
\* get_oauth_token overlap, each thread at its own line, on the one
\* _TOKEN_CACHE of the module.
MaxAcquires == 3

\* what the token issuer answers here
IssuerReplies ==
    {r \in TokenReplies :
        \/ r.kind = "http" /\ r.status_code = 401
        \/ Issued(r)}

InitToken ==
    /\ NoOrchestrator
    /\ cfg = NoCfg
    /\ NoJob
    /\ server = Copilot
    /\ auth_mode = "oauth2"
    /\ tool = "get_oauth_token"
    /\ arg = JNull
    /\ spc = "idle"
    /\ wire = <<>>
    /\ r1 = NoRet
    /\ r2 = NoRet
    /\ ret = NoRet
    /\ token_cache = EmptyCache
    /\ now = 0
    /\ nStarted = 0

\* the variables a thread inside get_oauth_token leaves alone
tokenFrame ==
    <<orchVars, dispatch, cfg, ok_tok, callee, exec_res, start, polls, last_status, details,
      server, auth_mode, tool, arg, spc, wire, r1, r2, ret, now>>

At(c, where) == tool = "get_oauth_token" /\ thr[c].pc = where
Goto(c, where) == thr' = [thr EXCEPT ![c].pc = where]

\* a thread enters get_oauth_token (line 166)
Acquire(c) ==
    /\ thr[c].pc \in {"idle", "done"}
    /\ tool = "get_oauth_token"
    /\ nStarted < MaxAcquires
    /\ nStarted' = nStarted + 1
    /\ thr' = [thr EXCEPT ![c].pc = "get", ![c].result = NoRet]
    /\ UNCHANGED <<tokenFrame, token_cache, nIssued>>

\* TokenCache.get, line 154: self.token is read
GetToken(c) ==
    /\ At(c, "get")
    /\ Goto(c, IF token_cache.token # "" THEN "get_expiry" ELSE "post")
    /\ UNCHANGED <<tokenFrame, token_cache, nIssued, nStarted>>

\* line 154: time.time() < (self.expires_at - 30)
GetExpiry(c) ==
    /\ At(c, "get_expiry")
    /\ Goto(c, IF now < token_cache.expires_at - 30 THEN "get_return" ELSE "post")
    /\ UNCHANGED <<tokenFrame, token_cache, nIssued, nStarted>>

\* line 155: return self.token, and line 169
GetReturn(c) ==
    /\ At(c, "get_return")
    /\ thr' = [thr EXCEPT ![c].pc = "done",
                          ![c].result = Returned(TokenOk(token_cache.token, TRUE).tok)]
    /\ UNCHANGED <<tokenFrame, token_cache, nIssued, nStarted>>

\* line 176: requests.post leaves for the issuer
Post(c) ==
    /\ At(c, "post")
    /\ Goto(c, "await")
    /\ nIssued' = nIssued + 1
    /\ UNCHANGED <<tokenFrame, token_cache, nStarted>>

\* lines 183-197: the issuer's reply; a reply without token ends the call
PostAnswered(c, r) ==
    /\ At(c, "await")
    /\ IF Issued(r)
       THEN thr' = [thr EXCEPT ![c].pc = "set_token",
                               ![c].token = CacheSet(r).token,
                               ![c].expires_in = CacheSet(r).expires_at - now]
       ELSE thr' = [thr EXCEPT ![c].pc = "done", ![c].result = TokenOutcome(r)]
    /\ UNCHANGED <<tokenFrame, token_cache, nIssued, nStarted>>

\* TokenCache.set, line 159: self.token = token
SetToken(c) ==
    /\ At(c, "set_token")
    /\ token_cache' = [token_cache EXCEPT !.token = thr[c].token]
    /\ Goto(c, "set_expiry")
    /\ UNCHANGED <<tokenFrame, nIssued, nStarted>>

\* line 160: self.expires_at = time.time() + max(0, int(expires_in)), and
\* line 200
SetExpiry(c) ==
    /\ At(c, "set_expiry")
    /\ token_cache' = [token_cache EXCEPT !.expires_at = now + thr[c].expires_in]
    /\ thr' = [thr EXCEPT ![c].pc = "done",
                          ![c].result = Returned(TokenOk(thr[c].token, FALSE).tok)]
    /\ UNCHANGED <<tokenFrame, nIssued, nStarted>>

NextToken ==
    \/ \E c \in Callers : Acquire(c)
    \/ \E c \in Callers : GetToken(c)
    \/ \E c \in Callers : GetExpiry(c)
    \/ \E c \in Callers : GetReturn(c)
    \/ \E c \in Callers : Post(c)
    \/ \E c \in Callers, r \in IssuerReplies : PostAnswered(c, r)
    \/ \E c \in Callers : SetToken(c)
    \/ \E c \in Callers : SetExpiry(c)
    \/ Tick

TokenSpec == InitToken /\ [][NextToken]_vars

\* C24: at no time are two requests for a token in flight.
C24_OneIssuanceInFlight ==
    Cardinality({c \in Callers : thr[c].pc = "await"}) <= 1

\* every thread is out of get_oauth_token
Quiescent == \A c \in Callers : thr[c].pc \in {"idle", "done"}
\* the pairs an issuance can write: tok1 lives 60 seconds, tok2 3600
IsIssuedPair(cache) ==
    \E t \in 0..(cache.expires_at) :
        \/ cache = [token |-> "tok1", expires_at |-> t + 60]
        \/ cache = [token |-> "tok2", expires_at |-> t + 3600]

\* C25: once the threads are out of get_oauth_token the cache is empty
\* (no issuance succeeded) or holds the token and the expiry that one and
\* the same issuance wrote.
C25_PairOfOneIssuance ==
    (tool = "get_oauth_token" /\ Quiescent) =>
        \/ token_cache = EmptyCache
        \/ IsIssuedPair(token_cache)

(* ----------------------------- the job tools ---------------------------- *)
\* s.split(","), s a string as the sequence of its tokens
RECURSIVE SplitComma(_)
SplitComma(s) ==
    IF \A i \in 1..Len(s) : s[i] # "," THEN <<s>>
    ELSE LET i == CHOOSE j \in 1..Len(s) : s[j] = "," /\ \A h \in 1..(j - 1) : s[h] # ","
         IN  <<SubSeq(s, 1, i - 1)>> \o SplitComma(SubSeq(s, i + 1, Len(s)))

\* set(x.strip() for x in cfg.allowlist_jobs.split(",") if x.strip())
Allowed(allowlist_jobs) ==
    {Strip(SplitComma(allowlist_jobs)[i]) : i \in 1..Len(SplitComma(allowlist_jobs))}
        \ {<<>>}

\* f"{job_type}:{job_name}"
JobKey(job_type, job_name) == <<job_type, ":", job_name>>

\* a value that says no: None
Passed == JNull

\* (mutant of enforce_client_key) no key is ever asked for
enforce_client_key_Open(c, client_api_key) == Passed

\* enforce_client_key(cfg, client_api_key)
enforce_client_key(c, client_api_key) ==
    IF c.client_api_key # "" /\ client_api_key # JStr(c.client_api_key)
    THEN JDict(<<KV("ok", JBool(FALSE)), KV("error", JStr("UNAUTHORIZED_CLIENT")),
                 KV("message", JStr("Invalid MCP client API key."))>>)
    ELSE Passed

\* allowlist_check(cfg, job_type, job_name); the message is shortened to
\* its constant part
allowlist_check(c, job_type, job_name) ==
    IF c.allowlist_jobs = <<>> THEN Passed
    ELSE IF JobKey(job_type, job_name) \notin Allowed(c.allowlist_jobs)
    THEN JDict(<<KV("ok", JBool(FALSE)), KV("error", JStr("JOB_NOT_ALLOWED")),
                 KV("message", JStr("Job not allowlisted"))>>)
    ELSE Passed

\* s.upper(), on the strings this model uses
UpperOf ==
    [x \in {"Succeeded", "running", "error", "Warn", "warning"} |->
        CASE x = "Succeeded" -> "SUCCEEDED"
          [] x = "running" -> "RUNNING"
          [] x = "error" -> "ERROR"
          [] x = "Warn" -> "WARN"
          [] OTHER -> "WARNING"]
Upper(x) == IF x \in DOMAIN UpperOf THEN UpperOf[x] ELSE x

\* (status or "").upper() can be evaluated: status is a str, or falsy
CanUpper(job_status) == job_status.t = "str" \/ ~Truthy(job_status)
\* (mutant of terminal) the status compared as it is written
terminal_CaseSensitive(job_status) ==
    job_status.t = "str" /\
    job_status.s \in {"SUCCEEDED", "FAILED", "ERROR", "CANCELED", "CANCELLED"}

\* terminal(job_status), where CanUpper(job_status)
terminal(job_status) ==
    job_status.t = "str" /\
    Upper(job_status.s) \in {"SUCCEEDED", "FAILED", "ERROR", "CANCELED", "CANCELLED"}

\* planning_execute_job, lines 337-340, res being an ok result whose
\* response is a dict
ExecuteResult(res) ==
    LET p == Get(res, "response") IN
    JDict(<<KV("ok", JBool(TRUE)),
            KV("jobId", Or(Or(Or(Get(p, "jobId"), Get(p, "jobID")), Get(p, "id")),
                           Get(p, "jobIdentifier"))),
            KV("status", Or(Or(Get(p, "status"), Get(p, "descriptiveStatus")),
                            Get(p, "state"))),
            KV("raw", p)>>)

\* planning_get_job_status, lines 362-372 (pbcs_copilot_mcp_real.py) and
\* 184-195 (pbcs_mcp_readonly.py, which knows no aliases of
\* percentComplete, startTime and endTime)
StatusResult(srv, res, job_id) ==
    LET p == Get(res, "response")
        alias(k, other) == IF srv = Copilot THEN Or(Get(p, k), Get(p, other)) ELSE Get(p, k)
    IN
    JDict(<<KV("ok", JBool(TRUE)),
            KV("jobId", job_id),
            KV("status", Or(Or(Get(p, "status"), Get(p, "descriptiveStatus")),
                            Get(p, "state"))),
            KV("percentComplete", alias("percentComplete", "progress")),
            KV("startTime", alias("startTime", "startedAt")),
            KV("endTime", alias("endTime", "endedAt")),
            KV("raw", p)>>)

\* the items of a details response: p.get("items") or p.get("details") or
\* p.get("messages") or [] (pbcs_copilot_mcp_real.py 402), p.get("items") or
\* [] (pbcs_mcp_readonly.py 226)
DetailItems(srv, p) ==
    IF srv = Copilot
    THEN Or(Or(Or(Get(p, "items"), Get(p, "details")), Get(p, "messages")), JList(<<>>))
    ELSE Or(Get(p, "items"), JList(<<>>))

\* "for it in items" with it.get(..) runs through: items is a list of dicts
CanCompact(items) == IsList(items) /\ \A i \in 1..Len(items.items) : IsDict(items.items[i])

\* one record of compact
Compact(srv, it) ==
    JDict(<<KV("severity", Get(it, "severity")),
            KV("type", Get(it, "type")),
            KV("row", Get(it, "row")),
            KV("message", IF srv = Copilot
                          THEN Or(Or(Get(it, "message"), Get(it, "details")), Get(it, "text"))
                          ELSE Get(it, "message"))>>)

\* planning_get_job_details from "p = res["response"]" on; offset and limit
\* are those of the caller, here the defaults 0 and 200
DetailsResult(srv, res, job_id) ==
    LET items == DetailItems(srv, Get(res, "response")) IN
    JDict(<<KV("ok", JBool(TRUE)), KV("jobId", job_id), KV("offset", JNum(0)),
            KV("limit", JNum(200)), KV("count", JNum(Len(items.items))),
            KV("items", JList([i \in 1..Len(items.items) |-> Compact(srv, items.items[i])]))>>)

\* {"ts": int(time.time()), "status": st.get("status"),
\*  "percentComplete": st.get("percentComplete")}
PollRecord(ts, st_) ==
    JDict(<<KV("ts", JNum(ts)), KV("status", Get(st_, "status")),
            KV("percentComplete", Get(st_, "percentComplete"))>>)

\* {"ok": False, "error": "POLL_FAILED", "jobId": job_id, "status_call": st}
PollFailed(job_id, st_) ==
    JDict(<<KV("ok", JBool(FALSE)), KV("error", JStr("POLL_FAILED")), KV("jobId", job_id),
            KV("status_call", st_)>>)

\* the TIMEOUT result; the message is shortened to its constant part
TimeoutResult(job_id, last, ps) ==
    JDict(<<KV("ok", JBool(FALSE)), KV("error", JStr("TIMEOUT")),
            KV("message", JStr("Job did not complete in time")), KV("jobId", job_id),
            KV("lastStatus", last), KV("polls", JList(ps))>>)

\* {"ok": False, "error": "NO_JOB_ID", ..}
NoJobId(exec) ==
    JDict(<<KV("ok", JBool(FALSE)), KV("error", JStr("NO_JOB_ID")),
            KV("message", JStr("Execute did not return jobId")), KV("raw", exec)>>)

\* (mutant of Take) nothing is cut
Take_All(xs, n) == xs

\* xs[:n]
Take(xs, n) == SubSeq(xs, 1, IF Len(xs) < n THEN Len(xs) ELSE n)

\* (x.get("severity") or "").upper() in names
SeverityIn(x, names) ==
    Upper(Or(Get(x, "severity"), JStr("")).s) \in names
\* the comprehension of lines 493-494 runs through: every item is a dict
\* whose severity is a str or falsy
CanPartition(items) ==
    \A i \in 1..Len(items) : IsDict(items[i]) /\ CanUpper(Get(items[i], "severity"))

\* {"jobId": .., "finalStatus": .., "pollCount": len(polls), "polls": polls}
\* with, in planning_run_job_and_wait, jobType and jobName
JobPart(args, job_id, last, ps) ==
    LET named == IF HasKey(args, "job_type")
                 THEN <<KV("jobType", Get(args, "job_type")),
                        KV("jobName", Get(args, "job_name"))>>
                 ELSE <<>>
    IN JDict(<<KV("jobId", job_id)>> \o named \o
             <<KV("finalStatus", Get(Or(last, JDict(<<>>)), "status")),
               KV("pollCount", JNum(Len(ps))), KV("polls", JList(ps))>>)

\* planning_run_job_and_wait, lines 492-516
RunReport(args, exec, last, ps, det) ==
    LET items == IF Truthy(Get(det, "ok")) THEN Get(det, "items").items ELSE <<>>
        errors == SelectSeq(items, LAMBDA x : SeverityIn(x, {"ERROR"}))
        warns == SelectSeq(items, LAMBDA x : SeverityIn(x, {"WARN", "WARNING"}))
    IN JDict(<<KV("ok", JBool(TRUE)),
               KV("job", JobPart(args, Get(exec, "jobId"), last, ps)),
               KV("summary", JDict(<<KV("errors", JList(Take(errors, 25))),
                                     KV("warnings", JList(Take(warns, 25))),
                                     KV("detailsSample", JList(Take(items, 25)))>>)),
               KV("raw", JDict(<<KV("execute", exec), KV("finalStatus", last),
                                 KV("details", det)>>))>>)

\* planning_watch_job, lines 279-288; det is None without include_details
WatchReport(args, last, ps, det) ==
    JDict(<<KV("ok", JBool(TRUE)),
            KV("job", JobPart(args, Get(args, "job_id"), last, ps)),
            KV("details", det)>>)

\* tool calls a server of the job tools is given
MaxJobCalls == 1
\* seconds a request to the enterprise API may take
RequestSeconds == {0, 2}

\* the configurations of the gate of pbcs_copilot_mcp_real.py
\* (MCP_CLIENT_API_KEY, PBCS_ALLOWLIST_JOBS)
Configs ==
    [client_api_key : {"", "k1"},
     allowlist_jobs : {<<>>, <<"RULES", ":", "Rollup", ",", " ", "REFRESH_CUBE", ":", "Plan1">>}]

\* the arguments of planning_execute_job and planning_run_job_and_wait
SubmitArgs ==
    {JDict(<<KV("job_type", JStr("RULES")), KV("job_name", JStr(name)),
             KV("client_api_key", key)>>) :
         name \in {"Rollup", "Other"}, key \in {JNull, JStr("k1"), JStr("bad")}}
\* poll_interval_seconds and timeout_seconds: the default interval 10 and
\* the interval 1 with a timeout of 5, and values that are 0 or less
Waits == {<<1, 5>>, <<10, 5>>, <<0, 0>>, <<-1, 2>>}
WaitArgs(args) ==
    {Merge(a, JDict(<<KV("poll_interval_seconds", JNum(w[1])),
                      KV("timeout_seconds", JNum(w[2]))>>)) :
         a \in args, w \in Waits}
\* the arguments of planning_watch_job
WatchArgs ==
    {Merge(a, JDict(<<KV("include_details", JBool(b))>>)) :
         a \in WaitArgs({JDict(<<KV("job_id", JStr("7"))>>)}), b \in BOOLEAN}

\* what the enterprise API answers to the submission, to a status poll and
\* to the request for the details
ArrayBody == JsonBody(JList(<<JDict(<<KV("secret", JStr("s3"))>>)>>))
ExecuteReplies ==
    {RequestException("Connection refused"),
     Response(200, "OK", JsonBody(JDict(<<KV("jobId", JNum(7)),
                                          KV("descriptiveStatus", JStr("Processing"))>>))),
     Response(200, "OK", JsonBody(JDict(<<KV("id", JNum(8)), KV("jobIdentifier", JNum(9))>>))),
     Response(200, "OK", JsonBody(JDict(<<KV("status", JStr("RUNNING"))>>))),
     Response(200, "OK", ArrayBody),
     Response(500, "Internal Server Error", JsonBody(JDict(<<KV("message", JStr("boom"))>>))),
     Response(500, "Internal Server Error", ArrayBody)}
StatusReplies ==
    {RequestException("Connection refused"),
     Response(200, "OK", JsonBody(JDict(<<KV("status", JStr("RUNNING")),
                                          KV("percentComplete", JNum(30))>>))),
     Response(200, "OK", JsonBody(JDict(<<KV("status", JStr("Succeeded")),
                                          KV("percentComplete", JNum(100))>>))),
     Response(200, "OK", JsonBody(JDict(<<KV("status", JStr("FAILED"))>>))),
     Response(200, "OK", JsonBody(JDict(<<KV("status", JNum(-1)),
                                          KV("descriptiveStatus", JStr("Processing"))>>))),
     Response(404, "Not Found", EmptyBody),
     Response(500, "Internal Server Error", ArrayBody)}
\* number of detail records of the long answer: more than 25 of each kind
MaxDetails == 54
ManyDetails ==
    [i \in 1..MaxDetails |->
         JDict(<<KV("severity", JStr(IF i % 2 = 1 THEN "ERROR" ELSE "warning")),
                 KV("row", JNum(i))>>)]
DetailsReplies ==
    {RequestException("Connection refused"),
     Response(200, "OK", JsonBody(JDict(<<KV("items", JList(ManyDetails))>>))),
     Response(200, "OK", JsonBody(JDict(<<KV("items", JList(<<
         JDict(<<KV("severity", JStr("error")), KV("message", JStr("m1"))>>),
         JDict(<<KV("severity", JStr("Warn")), KV("text", JStr("t2"))>>)>>))>>))),
     Response(200, "OK", ArrayBody),
     Response(500, "Internal Server Error", JsonBody(JDict(<<KV("message", JStr("boom"))>>))),
     Response(500, "Internal Server Error", ArrayBody)}
JobReplies == ExecuteReplies \cup StatusReplies \cup DetailsReplies
RepliesTo(fn) ==
    CASE fn = "planning_execute_job" -> ExecuteReplies
      [] fn = "planning_get_job_status" -> StatusReplies
      [] OTHER -> DetailsReplies

\* pbcs_request asks for a token first in oauth2 mode (lines 220-226)
BeforeRequest == IF auth_mode = "oauth2" THEN "token" ELSE "send"

InitJob ==
    /\ NoOrchestrator
    /\ NoJob
    /\ server \in {Copilot, PbcsReadOnly}
    /\ auth_mode \in (IF server = Copilot THEN {"basic", "oauth2"} ELSE {NoVal})
    /\ cfg \in (IF server = Copilot THEN Configs ELSE {NoCfg})
    /\ tool = NoVal
    /\ arg = JNull
    /\ spc = "idle"
    /\ wire = <<>>
    /\ r1 = NoRet
    /\ r2 = NoRet
    /\ ret = NoRet
    /\ token_cache = EmptyCache
    /\ now = 0
    /\ nStarted = 0

\* what a job tool leaves alone from its entry to its end
jobFrame == <<orchVars, cfg, thr, dispatch, server, auth_mode, r1, r2>>

\* planning_execute_job is entered, by the client or by
\* planning_run_job_and_wait (line 431): lines 317-327, up to pbcs_request
EnterSubmit(t, a) ==
    /\ server = Copilot
    /\ spc \in {"idle", "done", "raised"}
    /\ nStarted < MaxJobCalls
    /\ nStarted' = nStarted + 1
    /\ tool' = t
    /\ arg' = a
    /\ callee' = "planning_execute_job"
    /\ wire' = <<>>
    /\ exec_res' = JNull
    /\ start' = 0
    /\ polls' = <<>>
    /\ last_status' = JNull
    /\ details' = JNull
    /\ LET deny == enforce_client_key(cfg, Get(a, "client_api_key"))
           guard == allowlist_check(cfg, Get(a, "job_type").s, Get(a, "job_name").s)
       IN  IF deny # Passed THEN ret' = Returned(deny) /\ spc' = "done"
           ELSE IF guard # Passed THEN ret' = Returned(guard) /\ spc' = "done"
           ELSE ret' = NoRet /\ spc' = BeforeRequest
    /\ UNCHANGED <<jobFrame, ok_tok, nIssued, token_cache, now>>

\* planning_watch_job is entered: lines 250-255 of pbcs_mcp_readonly.py, up
\* to the pbcs_get of planning_get_job_status
EnterWatch(a) ==
    /\ server = PbcsReadOnly
    /\ spc \in {"idle", "done", "raised"}
    /\ nStarted < MaxJobCalls
    /\ nStarted' = nStarted + 1
    /\ tool' = "planning_watch_job"
    /\ arg' = a
    /\ callee' = "planning_get_job_status"
    /\ wire' = <<>>
    /\ exec_res' = JNull
    /\ start' = now
    /\ polls' = <<>>
    /\ last_status' = JNull
    /\ details' = JNull
    /\ ret' = NoRet
    /\ spc' = BeforeRequest
    /\ UNCHANGED <<jobFrame, ok_tok, nIssued, token_cache, now>>

\* the locals of a job tool and where it is, as one value
Frame ==
    [spc |-> spc, ret |-> ret, callee |-> callee, exec_res |-> exec_res, start |-> start,
     polls |-> polls, last_status |-> last_status, details |-> details]
\* return result
Ends(f, result) == [f EXCEPT !.spc = "done", !.ret = Returned(result)]
\* an exception leaves the tool
Leaves_(f, e) == [f EXCEPT !.spc = "raised", !.ret = Raised(e)]
\* (status or "").upper() on a status that is no str
NoUpperError == [type |-> "AttributeError", msg |-> "object has no attribute 'upper'"]

\* job_id of the polling loop: exec_res.get("jobId"), or the argument of
\* planning_watch_job
JobId == IF tool = "planning_watch_job" THEN Get(arg, "job_id") ELSE Get(exec_res, "jobId")

\* planning_execute_job from line 334 on and, in planning_run_job_and_wait,
\* lines 439-447; res is what pbcs_request returned, t the time
AfterExecute(f, res, t) ==
    IF ~Truthy(Get(res, "ok")) THEN Ends(f, res)
    ELSE IF ~IsDict(Get(res, "response")) THEN Leaves_(f, NoGetError)
    ELSE LET exec == ExecuteResult(res) IN
         IF tool = "planning_execute_job" THEN Ends(f, exec)
         ELSE IF ~Truthy(Get(exec, "jobId")) THEN Ends(f, NoJobId(exec))
         ELSE [f EXCEPT !.exec_res = exec, !.start = t, !.polls = <<>>,
                        !.callee = "planning_get_job_status", !.spc = BeforeRequest]

\* (mutant of TimedOut) the deadline is never looked at
TimedOut_Never(t, since, timeout_seconds) == FALSE

\* (time.time() - start) >= timeout_seconds
TimedOut(t, since, timeout_seconds) == t - since >= timeout_seconds

\* (mutant of AfterTerminal) a terminal status is polled once more
AfterTerminal_PollAgain(f) == [f EXCEPT !.spc = "sleep"]

\* break (line 468), then the details: lines 482-490, and 269-277 of
\* pbcs_mcp_readonly.py, up to the request
AfterTerminal(f) ==
    IF tool = "planning_watch_job" /\ ~Truthy(Get(arg, "include_details"))
    THEN Ends(f, WatchReport(arg, f.last_status, f.polls, JNull))
    ELSE [f EXCEPT !.callee = "planning_get_job_details", !.spc = BeforeRequest]

\* planning_get_job_status from "if not res.get("ok")" on, and one turn of
\* the loop from line 457 (pbcs_mcp_readonly.py: 251) to the sleep
AfterStatus(f, res, t) ==
    IF ~Truthy(Get(res, "ok")) THEN Ends(f, PollFailed(JobId, res))
    ELSE IF ~IsDict(Get(res, "response")) THEN Leaves_(f, NoGetError)
    ELSE LET st_ == StatusResult(server, res, JobId)
             g == [f EXCEPT !.polls = Append(polls, PollRecord(t, st_)), !.last_status = st_]
         IN  IF ~CanUpper(Get(st_, "status")) THEN Leaves_(g, NoUpperError)
             ELSE IF terminal(Get(st_, "status")) THEN AfterTerminal(g)
             ELSE IF TimedOut(t, start, Get(arg, "timeout_seconds").n)
             THEN Ends(g, TimeoutResult(JobId, st_, g.polls))
             ELSE [g EXCEPT !.spc = "sleep"]

\* planning_get_job_details from "if not res.get("ok")" on, and the report:
\* lines 492-516, and 279-288 of pbcs_mcp_readonly.py
AfterDetails(f, res, t) ==
    IF Truthy(Get(res, "ok")) /\ ~IsDict(Get(res, "response")) THEN Leaves_(f, NoGetError)
    ELSE IF Truthy(Get(res, "ok")) /\ ~CanCompact(DetailItems(server, Get(res, "response")))
    THEN Leaves_(f, NoGetError)
    ELSE LET det == IF Truthy(Get(res, "ok")) THEN DetailsResult(server, res, JobId) ELSE res
             g == [f EXCEPT !.details = det]
         IN  IF tool = "planning_watch_job"
             THEN Ends(g, WatchReport(arg, last_status, polls, det))
             ELSE IF Truthy(Get(det, "ok")) /\ ~CanPartition(Get(det, "items").items)
             THEN Leaves_(g, NoUpperError)
             ELSE Ends(g, RunReport(arg, exec_res, last_status, polls, det))

\* the tool goes on with what pbcs_request / pbcs_get came to
Continue(f, out, t) ==
    IF out.kind = "raised" THEN Leaves_(f, out.exc)
    ELSE CASE callee = "planning_execute_job" -> AfterExecute(f, out.value, t)
           [] callee = "planning_get_job_status" -> AfterStatus(f, out.value, t)
           [] OTHER -> AfterDetails(f, out.value, t)

Becomes(f) ==
    /\ spc' = f.spc
    /\ ret' = f.ret
    /\ callee' = f.callee
    /\ exec_res' = f.exec_res
    /\ start' = f.start
    /\ polls' = f.polls
    /\ last_status' = f.last_status
    /\ details' = f.details

\* the token issuer's reply inside a job tool: get_oauth_token lines
\* 183-200, pbcs_request lines 224-226, then the tool
JobTokenAnswered(r) ==
    /\ spc = "token_await"
    /\ tool \in JobTools
    /\ wire' = Answered(r)
    /\ LET out == TokenOutcome(r) IN
       IF out.kind = "raised"
       THEN Becomes(Continue(Frame, out, now)) /\ UNCHANGED <<ok_tok, token_cache>>
       ELSE IF ~Issued(r)
       THEN /\ ok_tok' = TokenNotOk(out.value)
            /\ token_cache' = CacheKept(token_cache)
            /\ Becomes(Continue(Frame, TokenFailure(out.value), now))
       ELSE /\ token_cache' = CacheSet(r)
            /\ ok_tok' = [ok |-> TRUE, tok |-> out.value]
            /\ Becomes([Frame EXCEPT !.spc = "send"])
    /\ UNCHANGED <<jobFrame, tool, arg, nIssued, now, nStarted>>

\* the enterprise API's reply inside a job tool, d seconds after the
\* request: the gateway's result, then the tool up to its next request, its
\* sleep or its end
JobGatewayReturns(r, d) ==
    /\ spc = "await"
    /\ tool \in JobTools
    /\ r \in RepliesTo(callee)
    /\ wire' = Answered(r)
    /\ now' = now + d
    /\ Becomes(Continue(Frame, GatewayOutcome(GatewayOf(server), r, Pending.url), now + d))
    /\ UNCHANGED <<jobFrame, tool, arg, ok_tok, nIssued, token_cache, nStarted>>

\* (mutant of SleepSeconds) the interval as it was given
SleepSeconds_AsGiven(poll_interval_seconds) == poll_interval_seconds

\* max(1, int(poll_interval_seconds))
SleepSeconds(poll_interval_seconds) ==
    IF poll_interval_seconds > 1 THEN poll_interval_seconds ELSE 1

\* time.sleep(max(1, int(poll_interval_seconds))), then the next turn of the
\* loop up to its request
Sleep ==
    /\ spc = "sleep"
    /\ now' = now + SleepSeconds(Get(arg, "poll_interval_seconds").n)
    /\ spc' = BeforeRequest
    /\ UNCHANGED <<jobFrame, tool, arg, callee, wire, ret, exec_res, start, polls,
                   last_status, details, ok_tok, nIssued, token_cache, nStarted>>

NextJob ==
    \/ \E a \in SubmitArgs : EnterSubmit("planning_execute_job", a)
    \/ \E a \in WaitArgs(SubmitArgs) : EnterSubmit("planning_run_job_and_wait", a)
    \/ \E a \in WatchArgs : EnterWatch(a)
    \/ AcquireToken
    \/ \E r \in IssuerReplies : JobTokenAnswered(r)
    \/ SendRequest
    \/ \E r \in JobReplies, d \in RequestSeconds : JobGatewayReturns(r, d)
    \/ Sleep

JobSpec == InitJob /\ [][NextJob]_vars

(* --------------------------- the polling loop --------------------------- *)
InWatch == tool \in {"planning_watch_job", "planning_run_job_and_wait"}
StatusPolls == Sent("planning_get_job_status")
DetailsRequests == Sent("planning_get_job_details")
\* a poll that was answered with a job snapshot
PolledOk(r) ==
    r.kind = "http" /\ r.status_code < 300 /\ r.body.kind = "json" /\ IsDict(r.body.json)
\* the status a reply reports
ReplyStatus(r) == IF PolledOk(r) THEN Get(r.body.json, "status") ELSE JNull
\* the terminal statuses, in the spellings this model meets
ReportsTerminal(r) ==
    /\ ReplyStatus(r).t = "str"
    /\ ReplyStatus(r).s \in {"SUCCEEDED", "Succeeded", "FAILED", "ERROR", "CANCELED", "CANCELLED"}
ReportsRunning(r) == PolledOk(r) /\ ~ReportsTerminal(r)
\* the job part of a report
JobOf(report) == Get(report, "job")

\* C26: when the first status poll is answered with a terminal status the
\* loop is left at once: one PollRecord, no sleep, no second status poll
\* (what follows is the details request or the end of the call), and the
\* report that is returned has pollCount 1 and that one record.
C26_TerminalFirstPollEndsLoop ==
    (InWatch /\ StatusPolls # <<>> /\ ReportsTerminal(StatusPolls[1].reply)) =>
        /\ Len(StatusPolls) = 1
        /\ Len(polls) = 1
        /\ Get(polls[1], "status") = ReplyStatus(StatusPolls[1].reply)
        /\ spc # "sleep"
        /\ spc \in {"done", "raised"} \/ callee = "planning_get_job_details"
        /\ (spc = "done" /\ ret.kind = "value") =>
               /\ Get(ret.value, "ok") = JBool(TRUE)
               /\ Get(JobOf(ret.value), "pollCount") = JNum(1)
               /\ Get(JobOf(ret.value), "polls") = JList(polls)
               /\ Get(JobOf(ret.value), "finalStatus") = ReplyStatus(StatusPolls[1].reply)

\* C26 witness: planning_watch_job has returned its report after one poll
\* that said "Succeeded".
C26_Witness ==
    /\ tool = "planning_watch_job"
    /\ spc = "done"
    /\ Len(StatusPolls) = 1
    /\ ReplyStatus(StatusPolls[1].reply) = JStr("Succeeded")
    /\ Get(JobOf(ret.value), "pollCount") = JNum(1)
    /\ Get(arg, "include_details") = JBool(FALSE)

\* the status endpoint has said "RUNNING" to every poll
NeverTerminal ==
    /\ StatusPolls # <<>>
    /\ \A i \in 1..Len(StatusPolls) :
           ReplyStatus(StatusPolls[i].reply) = JStr("RUNNING")

\* C27: with timeout_seconds = 5 and a status endpoint that never reports
\* a terminal status, the call returns TIMEOUT between 5 and 6 seconds after
\* the loop started, with at least one PollRecord and the last snapshot.
C27_TimeoutWithinOneSecond ==
    (InWatch /\ CallOver /\ NeverTerminal /\ Get(arg, "timeout_seconds") = JNum(5)) =>
        /\ ret.kind = "value"
        /\ Get(ret.value, "error") = JStr("TIMEOUT")
        /\ now - start >= 5
        /\ now - start <= 6
        /\ Len(Get(ret.value, "polls").items) >= 1
        /\ Get(ret.value, "lastStatus") = last_status

\* the polls answered so far
Answered_(reqs) == SelectSeq(reqs, LAMBDA q : q.reply.kind # "none")
\* poll k is the first that reports a terminal status, every poll before it
\* was answered with a snapshot that is not terminal
FirstTerminalAt(k) ==
    /\ k \in 1..Len(StatusPolls)
    /\ ReportsTerminal(StatusPolls[k].reply)
    /\ \A i \in 1..(k - 1) : ReportsRunning(StatusPolls[i].reply)
\* the last request of the call was a status poll, answered with a
\* snapshot that is not terminal
LastPollRunning ==
    /\ wire # <<>>
    /\ Pending.to = "planning_get_job_status"
    /\ ReportsRunning(Pending.reply)

\* C28: every status poll answered with a snapshot adds its PollRecord, in
\* poll order; a snapshot that is not terminal ends the call by TIMEOUT
\* only, so the polls go on until the first terminal one; when that is poll
\* k, k polls were issued, there are k PollRecords, and the report has
\* pollCount = k, those records and finalStatus = the status of poll k.
C28_PollsUntilFirstTerminal ==
    InWatch =>
        /\ \A i \in 1..Len(polls) :
               /\ i <= Len(StatusPolls)
               /\ Get(polls[i], "status") = ReplyStatus(StatusPolls[i].reply)
        /\ (CallOver /\ LastPollRunning) =>
               ret.kind = "value" /\ Get(ret.value, "error") = JStr("TIMEOUT")
        /\ \A k \in 1..Len(StatusPolls) :
               FirstTerminalAt(k) =>
                   /\ Len(StatusPolls) = k
                   /\ Len(polls) = k
                   /\ (spc = "done" /\ ret.kind = "value") =>
                          /\ Get(JobOf(ret.value), "pollCount") = JNum(k)
                          /\ Get(JobOf(ret.value), "polls") = JList(polls)
                          /\ Get(JobOf(ret.value), "finalStatus") =
                                 ReplyStatus(StatusPolls[k].reply)

\* the submission of planning_run_job_and_wait failed: the token or the
\* POST did
SubmitRequests == Sent("planning_execute_job")
SubmissionFailed ==
    /\ wire # <<>>
    /\ Pending.to \in {"idcs", "planning_execute_job"}
    /\ \/ Pending.to = "idcs" /\ IssuanceFailed(Pending.reply)
       \/ Pending.to = "planning_execute_job" /\ Failed(Pending.reply)
\* the last status poll, or the token it needed, failed
PollHasFailed ==
    /\ wire # <<>>
    /\ StatusPolls # <<>> \/ exec_res # JNull
    /\ \/ Pending.to = "planning_get_job_status" /\ Failed(Pending.reply)
       \/ Pending.to = "idcs" /\ exec_res # JNull /\ IssuanceFailed(Pending.reply)
ErrorOf(result) == Get(result, "error")

\* C29: planning_run_job_and_wait asks for the details only after a
\* submission that succeeded and a status poll that reported a terminal
\* status; when the submission fails it returns that failure, when a poll
\* fails POLL_FAILED with the failed call, when the loop times out TIMEOUT,
\* and in none of the three has a details request been sent.
C29_DetailsOnlyAfterTerminal ==
    tool = "planning_run_job_and_wait" =>
        /\ DetailsRequests # <<>> =>
               /\ Truthy(Get(exec_res, "ok"))
               /\ Truthy(Get(exec_res, "jobId"))
               /\ StatusPolls # <<>>
               /\ ReportsTerminal(StatusPolls[Len(StatusPolls)].reply)
        /\ (CallOver /\ exec_res = JNull /\ SubmissionFailed) =>
               /\ ret.kind = "value"
               /\ Get(ret.value, "ok") = JBool(FALSE)
               /\ ErrorOf(ret.value) \in
                      {JStr("NETWORK_ERROR"), JStr("HTTP_ERROR"), JStr("OAUTH_HTTP_ERROR"),
                       JStr("OAUTH_NETWORK_ERROR"), JStr("OAUTH_BAD_RESPONSE")}
               /\ StatusPolls = <<>>
               /\ DetailsRequests = <<>>
        /\ (CallOver /\ PollHasFailed) =>
               /\ ret.kind = "value"
               /\ ErrorOf(ret.value) = JStr("POLL_FAILED")
               /\ DetailsRequests = <<>>
        /\ (CallOver /\ ret.kind = "value" /\ ErrorOf(ret.value) = JStr("TIMEOUT")) =>
               /\ LastPollRunning
               /\ DetailsRequests = <<>>

(* ------------------------------ the gate -------------------------------- *)
InSubmit == tool \in {"planning_execute_job", "planning_run_job_and_wait"}
\* a client key is configured and the one supplied is another, or none
WrongKey ==
    cfg.client_api_key = "k1" /\ Get(arg, "client_api_key") \in {JNull, JStr("bad")}
\* the allowlist is set and does not name the job (RULES:Other)
NotAllowed ==
    cfg.allowlist_jobs # <<>> /\ Get(arg, "job_name") = JStr("Other")

\* C30 as stated: a submission of a job the non-empty allowlist does not
\* name returns JOB_NOT_ALLOWED, a call with a key that is not the configured
\* one returns UNAUTHORIZED_CLIENT, and in both cases no request was sent.
C30_EachRejectionAsStated ==
    InSubmit =>
        /\ NotAllowed =>
               /\ spc = "done"
               /\ ret.kind = "value"
               /\ ErrorOf(ret.value) = JStr("JOB_NOT_ALLOWED")
               /\ wire = <<>>
        /\ WrongKey =>
               /\ spc = "done"
               /\ ret.kind = "value"
               /\ ErrorOf(ret.value) = JStr("UNAUTHORIZED_CLIENT")
               /\ wire = <<>>

\* C30 amended: a call with a key that is not the configured one ends at once with
\* UNAUTHORIZED_CLIENT; a call that passes the key check for a job the
\* allowlist does not name ends at once with JOB_NOT_ALLOWED; in both no
\* request was sent, neither to the enterprise API nor to the token issuer.
\* A call that neither check refuses is not answered with either error.
C30_RejectedBeforeAnyRequest ==
    InSubmit =>
        /\ WrongKey =>
               /\ spc = "done"
               /\ ret.kind = "value"
               /\ Get(ret.value, "ok") = JBool(FALSE)
               /\ ErrorOf(ret.value) = JStr("UNAUTHORIZED_CLIENT")
               /\ wire = <<>>
        /\ (NotAllowed /\ ~WrongKey) =>
               /\ spc = "done"
               /\ ret.kind = "value"
               /\ Get(ret.value, "ok") = JBool(FALSE)
               /\ ErrorOf(ret.value) = JStr("JOB_NOT_ALLOWED")
               /\ wire = <<>>
        /\ (ret.kind = "value"
              /\ ErrorOf(ret.value) \in {JStr("UNAUTHORIZED_CLIENT"), JStr("JOB_NOT_ALLOWED")}) =>
               (WrongKey \/ NotAllowed) /\ wire = <<>>

\* C30 witness: in oauth2 mode, with key and allowlist configured, the
\* job RULES:Other sent with the right key was refused; no token was asked
\* for.
C30_Witness ==
    /\ tool = "planning_run_job_and_wait"
    /\ auth_mode = "oauth2"
    /\ cfg.client_api_key = "k1"
    /\ Get(arg, "client_api_key") = JStr("k1")
    /\ Get(arg, "job_name") = JStr("Other")
    /\ spc = "done"
    /\ ErrorOf(ret.value) = JStr("JOB_NOT_ALLOWED")
    /\ wire = <<>>
    /\ nIssued = 0
    /\ token_cache = EmptyCache

(* ------------------------------ the report ------------------------------ *)
\* planning_run_job_and_wait has returned its report
Reported ==
    /\ tool = "planning_run_job_and_wait"
    /\ spc = "done"
    /\ ret.kind = "value"
    /\ IsOk(ret.value)
SummaryOf(report) == Get(report, "summary")
\* the detail records as the enterprise API sent them; none when the
\* details call failed
Received ==
    IF Pending.to = "planning_get_job_details" /\ PolledOk(Pending.reply)
    THEN Get(Pending.reply.body.json, "items").items
    ELSE <<>>
\* the spellings of a severity this model meets
IsError(x) == Get(x, "severity") \in {JStr("ERROR"), JStr("error")}
IsWarning(x) == Get(x, "severity") \in {JStr("Warn"), JStr("warning")}
\* the first 25 at most of xs
First25(xs) == [i \in 1..(IF Len(xs) > 25 THEN 25 ELSE Len(xs)) |-> xs[i]]
Compacted(xs) == [i \in 1..Len(xs) |-> Compact(server, xs[i])]

\* C31: in the report of planning_run_job_and_wait errors is the detail
\* records of severity ERROR and warnings those of severity WARN or WARNING,
\* each in the order received and each cut to its first 25 entries; neither
\* list has more than 25 entries.
C31_ErrorsAndWarningsCapped ==
    Reported =>
        LET errors == Get(SummaryOf(ret.value), "errors").items
            warnings == Get(SummaryOf(ret.value), "warnings").items
        IN  /\ Len(errors) <= 25
            /\ Len(warnings) <= 25
            /\ errors = First25(Compacted(SelectSeq(Received, IsError)))
            /\ warnings = First25(Compacted(SelectSeq(Received, IsWarning)))

\* C31 witness: a report was returned for 54 detail records, 27 of each
\* kind: 25 errors and 25 warnings, the 25th error being record 49.
C31_Witness ==
    /\ Reported
    /\ Len(Received) = MaxDetails
    /\ Len(Get(SummaryOf(ret.value), "errors").items) = 25
    /\ Len(Get(SummaryOf(ret.value), "warnings").items) = 25
    /\ Get(Get(SummaryOf(ret.value), "errors").items[25], "row") = JNum(49)

\* the loop was left on a terminal status and the details call that
\* followed failed: its request, or the token it needed
DetailsFailed ==
    /\ InWatch
    /\ wire # <<>>
    /\ StatusPolls # <<>>
    /\ ReportsTerminal(StatusPolls[Len(StatusPolls)].reply)
    /\ \/ Pending.to = "planning_get_job_details" /\ Failed(Pending.reply)
       \/ Pending.to = "idcs" /\ callee = "planning_get_job_details"
            /\ IssuanceFailed(Pending.reply)
\* where a report carries the details result
DetailsOf(report) ==
    IF tool = "planning_watch_job" THEN Get(report, "details")
    ELSE Get(Get(report, "raw"), "details")

\* C32: when the details call fails after the loop was left on a terminal
\* status, the tool still returns its ok report, with the finalStatus of the
\* last poll, pollCount and the PollRecords of the loop, and with the failed
\* details result in its own field.
C32_DetailsFailureKeepsOutcome ==
    (DetailsFailed /\ CallOver) =>
        /\ ret.kind = "value"
        /\ IsOk(ret.value)
        /\ Get(JobOf(ret.value), "finalStatus") =
               ReplyStatus(StatusPolls[Len(StatusPolls)].reply)
        /\ Get(JobOf(ret.value), "pollCount") = JNum(Len(StatusPolls))
        /\ Get(JobOf(ret.value), "polls") = JList(polls)
        /\ Len(polls) = Len(StatusPolls)
        /\ Get(DetailsOf(ret.value), "ok") = JBool(FALSE)

(* ---------------------------- the submission ---------------------------- *)
\* the names the job id is looked for under, in the order of line 338
JobIdAliases == <<"jobId", "jobID", "id", "jobIdentifier">>
HasJobId(p) == \E i \in 1..Len(JobIdAliases) : HasKey(p, JobIdAliases[i])
\* the value of the first of them that is in p
FirstJobId(p) ==
    Get(p, JobIdAliases[CHOOSE i \in 1..Len(JobIdAliases) :
                            /\ HasKey(p, JobIdAliases[i])
                            /\ \A j \in 1..(i - 1) : ~HasKey(p, JobIdAliases[j])])
\* the POST of the submission was answered below 300 with a JSON object
Submitted ==
    /\ InSubmit
    /\ SubmitRequests # <<>>
    /\ PolledOk(SubmitRequests[1].reply)
SubmitBody == SubmitRequests[1].reply.body.json
\* what planning_execute_job came to: its return value, or what
\* planning_run_job_and_wait kept of it
SubmitResult ==
    IF tool = "planning_execute_job" \/ exec_res = JNull THEN ret.value ELSE exec_res

\* C33: a submission whose POST succeeded returns as jobId the value of the
\* first of jobId, jobID, id, jobIdentifier that is in the response, and
\* fails (ok false) when the response has none of them.
C33_JobIdOrFailure ==
    (Submitted /\ CallOver /\ ret.kind = "value") =>
        IF HasJobId(SubmitBody)
        THEN /\ IsOk(SubmitResult)
             /\ Get(SubmitResult, "jobId") = FirstJobId(SubmitBody)
        ELSE Get(ret.value, "ok") = JBool(FALSE)

\* the part of C33 that holds: the alias order, and the failure of
\* planning_run_job_and_wait on a response without a job id
C33_AliasOrder ==
    (Submitted /\ CallOver /\ ret.kind = "value") =>
        IF HasJobId(SubmitBody)
        THEN /\ IsOk(SubmitResult)
             /\ Get(SubmitResult, "jobId") = FirstJobId(SubmitBody)
        ELSE IF tool = "planning_run_job_and_wait"
        THEN ErrorOf(ret.value) = JStr("NO_JOB_ID")
        ELSE IsOk(ret.value) /\ Get(ret.value, "jobId") = JNull

(* ------------------------ two calls in one process ---------------------- *)
\* planning_watch_job is a plain "def" that polls with requests and waits in
\* time.sleep; @mcp.tool hands it to FastMCP, and mcp.run() decides where it
\* runs: "loop" is on the thread of the server's event loop, where a call
\* that has begun keeps the thread until it returns; "threads" is one worker
\* thread per call
Dispatches == {"loop", "threads"}
\* tool calls the two clients make
MaxWatches == 3
\* seconds the clock of this server goes to
MaxWatchNow == 4
IdleWatcher == [pc |-> "idle", start |-> 0, wake |-> 0, polls |-> <<>>, result |-> NoRet]
WatcherArgs ==
    {JDict(<<KV("job_id", JStr("7")), KV("poll_interval_seconds", JNum(i)),
             KV("timeout_seconds", JNum(2)), KV("include_details", JBool(FALSE))>>) :
         i \in {0, 1}}
WatcherReplies ==
    {r \in StatusReplies :
        \/ r.kind = "transport"
        \/ PolledOk(r) /\ ReplyStatus(r) \in {JStr("RUNNING"), JStr("Succeeded")}}

InitWatchers ==
    /\ NoOrchestrator
    /\ cfg = NoCfg
    /\ ok_tok = NoTok
    /\ callee = "planning_get_job_status"
    /\ exec_res = JNull
    /\ start = 0
    /\ polls = <<>>
    /\ last_status = JNull
    /\ details = JNull
    /\ thr = [c \in Callers |-> IdleWatcher]
    /\ nIssued = 0
    /\ dispatch \in Dispatches
    /\ server = PbcsReadOnly
    /\ auth_mode = NoVal
    /\ tool = "planning_watch_job"
    /\ arg \in WatcherArgs
    /\ spc = "idle"
    /\ wire = <<>>
    /\ r1 = NoRet
    /\ r2 = NoRet
    /\ ret = NoRet
    /\ token_cache = EmptyCache
    /\ now = 0
    /\ nStarted = 0

\* what a step of one call leaves alone
watcherFrame ==
    <<orchVars, cfg, ok_tok, callee, exec_res, start, polls, last_status, details, nIssued,
      dispatch, server, auth_mode, tool, arg, spc, wire, r1, r2, ret, token_cache>>

\* the call of c is inside the tool function
Inside(c) == thr[c].pc \in {"poll", "await", "sleep"}
\* the thread that would run c's next step is taken: on the event loop a
\* function that has begun runs to its return with nothing in between,
\* time.sleep and the wait for requests included
Held(c) == dispatch = "loop" /\ \E d \in Callers \ {c} : Inside(d)

\* a client sends tools/call for planning_watch_job
Call(c) ==
    /\ tool = "planning_watch_job"
    /\ thr[c].pc \in {"idle", "done"}
    /\ nStarted < MaxWatches
    /\ nStarted' = nStarted + 1
    /\ thr' = [thr EXCEPT ![c] = [IdleWatcher EXCEPT !.pc = "called"]]
    /\ UNCHANGED <<watcherFrame, now>>

\* the function is entered: lines 242-244, start = time.time()
Begin(c) ==
    /\ tool = "planning_watch_job"
    /\ thr[c].pc = "called"
    /\ ~Held(c)
    /\ thr' = [thr EXCEPT ![c].pc = "poll", ![c].start = now]
    /\ UNCHANGED <<watcherFrame, now, nStarted>>

\* planning_get_job_status up to requests.get inside pbcs_get
Poll(c) ==
    /\ tool = "planning_watch_job"
    /\ thr[c].pc = "poll"
    /\ ~Held(c)
    /\ thr' = [thr EXCEPT ![c].pc = "await"]
    /\ UNCHANGED <<watcherFrame, now, nStarted>>

\* the reply, then the turn of the loop up to the sleep: lines 246-265
PollAnswered(c, r) ==
    /\ tool = "planning_watch_job"
    /\ thr[c].pc = "await"
    /\ ~Held(c)
    /\ LET out == GatewayOutcome(GatewayOf(server), r, NextUrl)
           st_ == StatusResult(server, out.value, Get(arg, "job_id"))
           ps == Append(thr[c].polls, PollRecord(now, st_))
       IN  IF ~Truthy(Get(out.value, "ok"))
           THEN thr' = [thr EXCEPT ![c].pc = "done",
                            ![c].result = Returned(PollFailed(Get(arg, "job_id"), out.value))]
           ELSE IF terminal(Get(st_, "status"))
           THEN thr' = [thr EXCEPT ![c].pc = "done", ![c].polls = ps,
                            ![c].result = Returned(WatchReport(arg, st_, ps, JNull))]
           ELSE IF TimedOut(now, thr[c].start, Get(arg, "timeout_seconds").n)
           THEN thr' = [thr EXCEPT ![c].pc = "done", ![c].polls = ps,
                            ![c].result =
                                Returned(TimeoutResult(Get(arg, "job_id"), st_, ps))]
           ELSE thr' = [thr EXCEPT ![c].pc = "sleep", ![c].polls = ps,
                            ![c].wake = now + SleepSeconds(Get(arg, "poll_interval_seconds").n)]
    /\ UNCHANGED <<watcherFrame, now, nStarted>>

\* time.sleep returns (line 267)
Wake(c) ==
    /\ tool = "planning_watch_job"
    /\ thr[c].pc = "sleep"
    /\ now >= thr[c].wake
    /\ ~Held(c)
    /\ thr' = [thr EXCEPT ![c].pc = "poll"]
    /\ UNCHANGED <<watcherFrame, now, nStarted>>

\* a second passes
Second ==
    /\ tool = "planning_watch_job"
    /\ dispatch \in Dispatches
    /\ now < MaxWatchNow
    /\ now' = now + 1
    /\ UNCHANGED <<watcherFrame, thr, nStarted>>

NextWatchers ==
    \/ \E c \in Callers : Call(c)
    \/ \E c \in Callers : Begin(c)
    \/ \E c \in Callers : Poll(c)
    \/ \E c \in Callers, r \in WatcherReplies : PollAnswered(c, r)
    \/ \E c \in Callers : Wake(c)
    \/ Second

WatchersSpec == InitWatchers /\ [][NextWatchers]_vars

\* c is in time.sleep, between two polls
Suspended(c) == thr[c].pc = "sleep"

\* C34: while one call of planning_watch_job is in its sleep between two
\* polls, another call in the same process goes on: one that was sent
\* can begin, one that is about to poll can poll.
C34_SuspendBlocksNobody ==
    \A c \in Callers, d \in Callers :
        (c # d /\ Suspended(c)) =>
            /\ thr[d].pc = "called" => ENABLED Begin(d)
            /\ thr[d].pc = "poll" => ENABLED Poll(d)

\* two calls are inside planning_watch_job at once
BothInside == \A c \in Callers : Inside(c)

(* ---------------------------- the failed poll --------------------------- *)
\* status poll i was answered with a failure
PollFailedAt(i) == i \in 1..Len(StatusPolls) /\ Failed(StatusPolls[i].reply)

\* C36: a status poll that fails ends the call at once with POLL_FAILED:
\* the failed poll is the last request of the call (no retry, no further
\* poll, no details request), it has left no PollRecord, and the failure
\* returned carries the failed status call but not the PollRecords so far.
C36_PollFailedAtOnce ==
    InWatch =>
        \A i \in 1..Len(StatusPolls) :
            PollFailedAt(i) =>
                /\ i = Len(StatusPolls)
                /\ Pending = StatusPolls[i]
                /\ DetailsRequests = <<>>
                /\ Len(polls) = i - 1
                /\ CallOver
                /\ ret.kind = "value"
                /\ Get(ret.value, "ok") = JBool(FALSE)
                /\ ErrorOf(ret.value) = JStr("POLL_FAILED")
                /\ Get(Get(ret.value, "status_call"), "ok") = JBool(FALSE)
                /\ ~HasKey(ret.value, "polls")

(* --------------------------- the job's own end -------------------------- *)
\* the last status poll was answered with a terminal status
ReachedTerminal ==
    /\ InWatch
    /\ StatusPolls # <<>>
    /\ ReportsTerminal(StatusPolls[Len(StatusPolls)].reply)
\* the errors a call of planning_run_job_and_wait or planning_watch_job
\* that is refused or fails returns
WatchErrors ==
    {JStr("UNAUTHORIZED_CLIENT"), JStr("JOB_NOT_ALLOWED"), JStr("NETWORK_ERROR"),
     JStr("HTTP_ERROR"), JStr("OAUTH_HTTP_ERROR"), JStr("OAUTH_NETWORK_ERROR"),
     JStr("OAUTH_BAD_RESPONSE"), JStr("NO_JOB_ID"), JStr("POLL_FAILED"), JStr("TIMEOUT")}

\* C37: a call whose job reached a terminal status, FAILED included,
\* returns an ok report with that status as finalStatus; ok false is
\* returned only for a refusal or failure of the submission, a missing job
\* id, a failed poll or a timeout, never for a terminal status.
C37_TerminalIsOk ==
    /\ (ReachedTerminal /\ CallOver) =>
           /\ ret.kind = "value"
           /\ IsOk(ret.value)
           /\ Get(JobOf(ret.value), "finalStatus") =
                  ReplyStatus(StatusPolls[Len(StatusPolls)].reply)
    /\ (InWatch /\ CallOver /\ ret.kind = "value" /\ ~IsOk(ret.value)) =>
           /\ ~ReachedTerminal
           /\ ErrorOf(ret.value) \in WatchErrors

\* the part of C37 that is about the ok flag: whatever a call whose job
\* reached a terminal status returns is an ok report with that status
C37_NoFailureForTerminal ==
    /\ (ReachedTerminal /\ CallOver /\ ret.kind = "value") =>
           /\ IsOk(ret.value)
           /\ Get(JobOf(ret.value), "finalStatus") =
                  ReplyStatus(StatusPolls[Len(StatusPolls)].reply)
    /\ (InWatch /\ CallOver /\ ret.kind = "value" /\ ~IsOk(ret.value)) =>
           /\ ~ReachedTerminal
           /\ ErrorOf(ret.value) \in WatchErrors

(* ------------------------- deadline and interval ------------------------ *)
\* timeout_seconds and poll_interval_seconds of the call
TimeoutOf == Get(arg, "timeout_seconds").n
IntervalOf == Get(arg, "poll_interval_seconds").n
\* the time status poll i was answered: the ts of its PollRecord
AnsweredAt(i) == Get(polls[i], "ts").n

\* C38: planning_watch_job sends at least one status poll whatever the
\* timeout; a poll that ends at or after the deadline with a terminal
\* status leaves the loop as terminal (the details or the report follow),
\* never as TIMEOUT; and two consecutive polls are at least one second
\* apart whatever the interval.
C38_OnePollTerminalFirstSleepOne ==
    tool = "planning_watch_job" =>
        /\ CallOver => StatusPolls # <<>>
        /\ (ReachedTerminal /\ now - start >= TimeoutOf) =>
               /\ spc # "sleep"
               /\ spc \in {"done", "raised"} \/ callee = "planning_get_job_details"
               /\ ret.kind = "value" =>
                      /\ IsOk(ret.value)
                      /\ ErrorOf(ret.value) # JStr("TIMEOUT")
                      /\ Get(JobOf(ret.value), "finalStatus") =
                             ReplyStatus(StatusPolls[Len(StatusPolls)].reply)
               /\ (CallOver /\ ~Truthy(Get(arg, "include_details"))) => ret.kind = "value"
        /\ \A i \in 2..Len(polls) : AnsweredAt(i) - AnsweredAt(i - 1) >= 1

\* C38 witness: with timeout 0 and interval 0 the first poll said RUNNING
\* at second 0, which is the deadline, and the call returned TIMEOUT with
\* that one poll.
C38_Witness ==
    /\ tool = "planning_watch_job"
    /\ TimeoutOf = 0
    /\ IntervalOf = 0
    /\ spc = "done"
    /\ Len(StatusPolls) = 1
    /\ ErrorOf(ret.value) = JStr("TIMEOUT")

\* with timeout 2 and interval -1 a later poll ended after the deadline
\* with a terminal status: the report is ok
C38_TerminalAfterDeadline ==
    /\ tool = "planning_watch_job"
    /\ spc = "done"
    /\ IntervalOf = -1
    /\ Len(polls) >= 2
    /\ ReachedTerminal
    /\ now - start >= TimeoutOf
    /\ IsOk(ret.value)

(* ----------------------- the completion call fails ---------------------- *)
\* history g is history h with turns added at its end
Extends(g, h) == Len(h) <= Len(g) /\ SubSeq(g, 1, Len(h)) = h
\* the steps of run r from the exception of the completion call to the end
\* of its thread
Unwinding(r) == pc[r] \in {"raised", "inexcept", "finally"}

\* C39: a completion call that raises ends run with that exception and
\* changes nothing in the history, neither then nor while the caller
\* handles it; no step ever takes a turn out of the history or moves one,
\* so the turns appended before the exception stay.
C39_FailedCompletionKeepsHistory ==
    [][/\ Extends(messages', messages)
       /\ \A r \in Runs :
              /\ (pc[r] = "call" /\ pc'[r] \in {"raised", "crashed"}) =>
                     /\ messages' = messages
                     /\ exc'[r] \in ApiErrors
              /\ (Unwinding(r) /\ pc'[r] # pc[r]) => messages' = messages]_vars

\* C39 witness: the first run failed at its second completion call, after
\* the turn of tool results; when it was over and the entry enabled again
\* the operator asked again: the history ends with two user turns, the
\* tool results without a reply and the new request.
C39_Witness ==
    /\ driver = "gui"
    /\ pc[1] = "done"
    /\ answer[1] = <<>>
    /\ nCalls = MaxCalls
    /\ pc[2] = "call"
    /\ afterQueue = <<>>
    /\ ~entryEnabled
    /\ Len(messages) = 4
    /\ messages[3].role = "user" /\ messages[3].kind = "list"
    /\ messages[4].role = "user" /\ messages[4].kind = "str"


(* --------------------- one session per configuration -------------------- *)
\* the bridges that hold a session / whose thread runs its event loop
OpenSessions == {b \in Bridges : session[b]}
RunningLoops == {b \in Bridges : bridge[b].loop = "running"}

\* C35: after any sequence of connects at most one session is open, and no
\* earlier bridge's session, thread and loop stay open beside the new one.
C35_AtMostOneSession ==
    /\ Cardinality(OpenSessions) <= 1
    /\ Cardinality(RunningLoops) <= 1

(* --------------------------- the bridge's life -------------------------- *)
\* a method of the bridge was called
Called == bres.op \in {"call_tool", "list_tools"}

\* C40: call_tool and list_tools raise "MCP not connected" and send nothing
\* when no session is open, that is before a successful start and after
\* close; after close the bridge reports not connected and its tool cache
\* is cleared.
C40_BridgeLifecycle ==
    /\ (Called /\ (~bres.session \/ ~bres.started \/ bres.closed)) =>
           (bres.exc = NotConnectedError /\ ~bres.sent)
    /\ \A b \in Bridges :
           bridge[b].closed => (~session[b] /\ bridge[b].cache = NoVal)

\* what does hold: with self.session None both methods raise and send
\* nothing
C40_NoSessionNoCall ==
    (Called /\ ~bres.session) => (bres.exc = NotConnectedError /\ ~bres.sent)

=============================================================================
